---- MODULE Spec2Model ----
(***************************************************************************)
(* Incremental sync engine of dmora/ch: internal/sync (Syncer, Mapper),    *)
(* internal/syncdb (state rows, dedup set, error log) and the JSONL        *)
(* parser, modelled as a state machine over a small directory of           *)
(* conversation files that an external writer appends to and rewrites.     *)
(***************************************************************************)
EXTENDS Integers, Sequences, FiniteSets, TLC

(* ------------------------------ bounds --------------------------------- *)
\* Largest number of lines a conversation file holds.
MaxLines == 2
\* Number of writes (append, rewrite, touch) the external writer performs.
MaxWrites == 2
\* Number of SyncAll / SyncFile invocations.
MaxRuns == 2

\* The conversation files findFiles discovers.
Paths == {"A", "B"}

\* NewSyncer: opts.Workers <= 0 is coerced to 4.
DefaultWorkers == 4

None == [absent |-> TRUE]

(* ------------------------------ entries -------------------------------- *)
\* One line of a JSONL file.  kind "entry" is a well-formed JSON object,
\* "blank" an empty line, "garbage" a line json.Unmarshal rejects,
\* "oversize" a line longer than MaxScannerBuffer (10 MiB).
Line(k, t, u, s, m) ==
    [kind |-> k, type |-> t, uuid |-> u, parentUUID |-> "", sessionID |-> s,
     timestamp |-> "", message |-> m, summary |-> ""]

UserA     == Line("entry", "user", "a", "S1", "text")
AssistB   == Line("entry", "assistant", "b", "S1", "text")
Snapshot  == Line("entry", "file-history-snapshot", "", "", "")
BrokenMsg == Line("entry", "user", "c", "S1", "notjson")
Blank     == Line("blank", "", "", "", "")
Garbage   == Line("garbage", "", "", "", "")
Oversize  == Line("oversize", "", "", "", "")

Lines == {UserA, AssistB, Snapshot, BrokenMsg, Blank, Garbage}

\* Bytes a line occupies in the file, newline included.
LineBytes(l) ==
    CASE l.kind = "blank"     -> 1
      [] l.kind = "garbage"   -> 2
      [] l.kind = "oversize"  -> 5
      [] l.type = "assistant" -> 4
      [] OTHER                -> 3

RECURSIVE SeqBytes(_)
SeqBytes(s) == IF s = <<>> THEN 0 ELSE LineBytes(Head(s)) + SeqBytes(Tail(s))

\* os.Stat: info.Size()
FileSize(content) == SeqBytes(content)

\* What a read from byte offset off to end of file yields, as the sequence
\* of tokens bufio.Scanner splits it into.  An offset inside a line leaves
\* the tail of that line as the first token: the bare newline of the line
\* (an empty token) or a fragment that is not JSON.
RECURSIVE ReadFrom(_, _)
ReadFrom(content, off) ==
    IF content = <<>> THEN <<>>
    ELSE LET b == LineBytes(Head(content)) IN
         IF off <= 0 THEN content
         ELSE IF off >= b THEN ReadFrom(Tail(content), off - b)
         ELSE IF off = b - 1 THEN <<Blank>> \o Tail(content)
         ELSE <<Garbage>> \o Tail(content)

\* A parser that steps over the lines it cannot read.
ParserNextErr_Skip(t) == "none"

\* Parser.Next: the error it returns on the token t: "scan" when the
\* scanner stops on a line over its buffer bound, "parse" when
\* json.Unmarshal rejects the line, "none" otherwise.
ParserNextErr(t) ==
    CASE t.kind = "oversize" -> "scan"
      [] t.kind = "garbage"  -> "parse"
      [] OTHER               -> "none"

\* file.Seek(0, io.SeekCurrent) once the parser has read to end of stream a
\* file of this content opened at offset off: the end of the file, or off
\* itself when the seek went past the end (nothing is read then).
SeekCurrent(content, off) ==
    IF off > FileSize(content) THEN off ELSE FileSize(content)

(* ------------------------------ mapper --------------------------------- *)
\* jsonl.ParseMessage: json.Unmarshal of the payload.
ParseMessageFails(entry) == entry.message = "notjson"

\* Mapper.generateSpanID
generateSpanID(entry, path, lineNum) ==
    IF entry.uuid # "" THEN <<"uuid", entry.uuid>>
    ELSE <<"sha", path, lineNum, entry.timestamp, entry.message>>

\* Mapper.MapEntry: [res |-> "span", span |-> ...], [res |-> "none"] or
\* [res |-> "error"].
MapEntry(entry, path, lineNum) ==
    LET mk(name) == [res |-> "span",
                     span |-> [id |-> generateSpanID(entry, path, lineNum),
                               trace |-> entry.sessionID, name |-> name,
                               file |-> path, line |-> lineNum]]
        none == [res |-> "none", span |-> None]
        err  == [res |-> "error", span |-> None]
    IN CASE entry.type = "user" ->
              IF ParseMessageFails(entry) THEN err ELSE mk("user-message")
         [] entry.type = "assistant" ->
              IF ParseMessageFails(entry) THEN err ELSE mk("assistant-generation")
         [] entry.type = "summary" -> mk("context-summary")
         [] entry.type = "system" ->
              IF ParseMessageFails(entry) THEN err ELSE mk("system-message")
         [] OTHER -> none

\* time.Parse with layout RFC3339, then with RFC3339Nano, on the timestamps
\* entries carry here: the instant, or an error.
timeParse(ts) ==
    CASE ts = "2025-01-01T12:00:00Z"   -> [ok |-> TRUE, t |-> 1000]
      [] ts = "2025-01-01T12:00:00.5Z" -> [ok |-> TRUE, t |-> 1001]
      [] OTHER                         -> [ok |-> FALSE, t |-> 0]

\* parseTimestamp returning the wall clock for every timestamp.
parseTimestamp_Now(ts, clk) == clk

\* Mapper.parseTimestamp: the parsed instant; time.Now() (clk) for an empty
\* or unparseable timestamp.
parseTimestamp(ts, clk) ==
    IF ts = "" THEN clk
    ELSE IF timeParse(ts).ok THEN timeParse(ts).t
    ELSE clk

\* Mapper.MapEntry with all the fields of the span it builds, called when
\* the wall clock reads clk: MapEntry's span extended with kind, start and
\* end time, input, output, model and metadata.
MapEntryAt(entry, path, lineNum, clk) ==
    LET m == MapEntry(entry, path, lineNum)
        timestamp == parseTimestamp(entry.timestamp, clk)
        text == <<"ExtractText", entry.message>>
    IN IF m.res # "span" THEN m
       ELSE [res |-> "span",
             span |-> m.span @@
                [kind |-> IF entry.type = "assistant" THEN "generation" ELSE "span",
                 start |-> timestamp,
                 end |-> timestamp,
                 input |-> IF entry.type \in {"user", "system"} THEN text ELSE <<>>,
                 output |-> CASE entry.type = "assistant" -> text
                              [] entry.type = "summary" -> <<"Summary", entry.summary>>
                              [] OTHER -> <<>>,
                 model |-> IF entry.type = "assistant"
                           THEN <<"Model", entry.message>> ELSE <<>>,
                 metadata |-> CASE entry.type = "user" ->
                                     <<"uuid", entry.uuid, "parent_uuid", entry.parentUUID>>
                                [] entry.type = "assistant" ->
                                     <<"thinking, tool_calls", entry.message, "uuid", entry.uuid>>
                                [] OTHER -> <<>>]]

\* GenerateMessageHash covering the parent uuid and the summary text too.
GenerateMessageHash_AllFields(entry) ==
    <<entry.type, entry.sessionID, entry.timestamp, entry.uuid, entry.message,
      entry.parentUUID, entry.summary>>

\* GenerateMessageHash: SHA-256 over type, session id, timestamp, uuid and
\* payload, modelled as the tuple of the fields it covers.
GenerateMessageHash(entry) ==
    <<entry.type, entry.sessionID, entry.timestamp, entry.uuid, entry.message>>

(* ------------------------------- store --------------------------------- *)
\* A sync_state row (syncdb.SyncState without the wall-clock LastSyncAt).
SyncState(off, size, mt, trace, count) ==
    [LastOffset |-> off, LastSize |-> size, LastMtime |-> mt,
     TraceID |-> trace, MessageCount |-> count]

\* DB.GetState: the row, or None for sql.ErrNoRows.
GetState(st, path) == st[path]

\* DB.SaveState: INSERT OR REPLACE keyed by file_path.
SaveState(st, path, row) == [st EXCEPT ![path] = row]

\* DeleteState deleting nothing.
DeleteState_Keep(st, path) == st

\* DB.DeleteState: DELETE ... WHERE file_path = ?
DeleteState(st, path) == [st EXCEPT ![path] = None]

\* IsSynced without the file_path condition of its query.
IsSynced_AnyPath(sy, path, hash) == \E r \in sy : r[2] = hash

\* IsSynced never finding the row.
IsSynced_Never(sy, path, hash) == FALSE

\* DB.IsSynced: COUNT(*) > 0 over (file_path, message_hash).
IsSynced(sy, path, hash) == <<path, hash>> \in sy

\* RecordSyncedMessage with the insert lost.
RecordSyncedMessage_Lost(sy, path, hash) == sy

\* DB.RecordSyncedMessage: INSERT OR REPLACE on the (file_path, hash) key.
RecordSyncedMessage(sy, path, hash) == sy \cup {<<path, hash>>}

\* ClearFileMessages deleting nothing.
ClearFileMessages_Keep(sy, path) == sy

\* DB.ClearFileMessages: DELETE ... WHERE file_path = ?
ClearFileMessages(sy, path) == {r \in sy : r[1] # path}

\* RecordError with the insert lost.
RecordError_Lost(el, path) == el

\* DB.RecordError: one more row in the append-only sync_errors table.
RecordError(el, path) == [el EXCEPT ![path] = @ + 1]

(* --------------------------- database tables --------------------------- *)
\* A TEXT column value: NULL, or a string.
SQLNull == <<"null">>
SQLText(s) == <<"text", s>>

\* Scan of a nullable TEXT column into sql.NullString, then
\* `if traceID.Valid { state.TraceID = traceID.String }`.
ScanNullString(v) == IF v = SQLNull THEN "" ELSE v[2]

\* The sync_state row DB.SaveState binds for the state r of path (the
\* wall-clock last_sync_at and the backend name left out, as in SyncState).
StateRow(path, r) ==
    [file_path |-> path, last_offset |-> r.LastOffset, last_size |-> r.LastSize,
     last_mtime |-> r.LastMtime, trace_id |-> SQLText(r.TraceID),
     message_count |-> r.MessageCount]

\* An INSERT into a sync_state table without its primary key.
InsertOrReplaceState_NoKey(tbl, row) == tbl \cup {row}

\* DB.SaveState: INSERT OR REPLACE INTO sync_state, file_path being the
\* primary key: the row of the same path, if any, is replaced.
InsertOrReplaceState(tbl, row) ==
    {x \in tbl : x.file_path # row.file_path} \cup {row}

\* DB.GetState: SELECT ... FROM sync_state WHERE file_path = ? and the Scan
\* of the row; None for sql.ErrNoRows.
SelectState(tbl, path) ==
    LET found == {x \in tbl : x.file_path = path} IN
    IF found = {} THEN None
    ELSE LET x == CHOOSE y \in found : TRUE
         IN SyncState(x.last_offset, x.last_size, x.last_mtime,
                      ScanNullString(x.trace_id), x.message_count)

\* DB.DeleteState: DELETE FROM sync_state WHERE file_path = ?
DeleteStateRows(tbl, path) == {x \in tbl : x.file_path # path}

\* The synced_messages row DB.RecordSyncedMessage binds (synced_at, the
\* wall clock, left out).
MessageRow(path, hash, spanID) ==
    [file_path |-> path, message_hash |-> hash, span_id |-> spanID]

\* DB.RecordSyncedMessage: INSERT OR REPLACE INTO synced_messages, the
\* primary key being (file_path, message_hash).
InsertOrReplaceMessage(tbl, row) ==
    {x \in tbl : ~(x.file_path = row.file_path /\ x.message_hash = row.message_hash)}
        \cup {row}

\* DB.IsSynced: SELECT COUNT(*) FROM synced_messages WHERE file_path = ? AND
\* message_hash = ?
CountMessages(tbl, path, hash) ==
    Cardinality({x \in tbl : x.file_path = path /\ x.message_hash = hash})

\* A DELETE on synced_messages without its WHERE clause.
DeleteMessages_All(tbl, path) == {}

\* DB.ClearFileMessages: DELETE FROM synced_messages WHERE file_path = ?
DeleteMessages(tbl, path) == {x \in tbl : x.file_path # path}

\* SELECT COALESCE(SUM(message_count), 0) FROM sync_state
RECURSIVE SumMessageCount(_)
SumMessageCount(tbl) ==
    IF tbl = {} THEN 0
    ELSE LET x == CHOOSE y \in tbl : TRUE
         IN x.message_count + SumMessageCount(tbl \ {x})

\* Stats counting the rows of synced_messages as the total.
Stats_RowCount(ss, sm) ==
    [TrackedFiles |-> Cardinality(ss), SyncedMessages |-> Cardinality(sm),
     TotalMessages |-> Cardinality(sm)]

\* DB.Stats: its three queries over the tables ss (sync_state) and sm
\* (synced_messages).
Stats(ss, sm) ==
    [TrackedFiles |-> Cardinality(ss), SyncedMessages |-> Cardinality(sm),
     TotalMessages |-> SumMessageCount(ss)]

(* ------------------------------- syncer -------------------------------- *)
\* shouldRecord ignoring the dry-run flag.
shouldRecord_Always(dry) == TRUE

\* Syncer.shouldRecord; NewSyncer opens the database exactly when not DryRun.
shouldRecord(dry) == ~dry

\* determineSyncStrategy taking an unchanged size for a shrunken file
\* (<= for <).
determineSyncStrategy_Le(dry, row, size, mt) ==
    IF ~shouldRecord(dry) THEN [kind |-> "norecord", offset |-> 0, lineNum |-> 0]
    ELSE IF row = None THEN [kind |-> "first", offset |-> 0, lineNum |-> 0]
    ELSE IF size <= row.LastSize THEN [kind |-> "compact", offset |-> 0, lineNum |-> 0]
    ELSE [kind |-> "incr", offset |-> row.LastOffset, lineNum |-> row.MessageCount]

\* determineSyncStrategy whose incremental strategy forgets the stored offset.
determineSyncStrategy_FromZero(dry, row, size, mt) ==
    IF ~shouldRecord(dry) THEN [kind |-> "norecord", offset |-> 0, lineNum |-> 0]
    ELSE IF row = None THEN [kind |-> "first", offset |-> 0, lineNum |-> 0]
    ELSE IF size < row.LastSize THEN [kind |-> "compact", offset |-> 0, lineNum |-> 0]
    ELSE IF mt = row.LastMtime /\ size = row.LastSize
         THEN [kind |-> "skip", offset |-> 0, lineNum |-> 0]
    ELSE [kind |-> "incr", offset |-> 0, lineNum |-> row.MessageCount]

\* determineSyncStrategy comparing the modification time with the stored
\* size in its no-change test.
determineSyncStrategy_Typo(dry, row, size, mt) ==
    IF ~shouldRecord(dry) THEN [kind |-> "norecord", offset |-> 0, lineNum |-> 0]
    ELSE IF row = None THEN [kind |-> "first", offset |-> 0, lineNum |-> 0]
    ELSE IF size < row.LastSize THEN [kind |-> "compact", offset |-> 0, lineNum |-> 0]
    ELSE IF mt = row.LastSize /\ size = row.LastSize
         THEN [kind |-> "skip", offset |-> 0, lineNum |-> 0]
    ELSE [kind |-> "incr", offset |-> row.LastOffset, lineNum |-> row.MessageCount]

\* determineSyncStrategy whose incremental strategy forgets the stored
\* entry count.
determineSyncStrategy_CountZero(dry, row, size, mt) ==
    IF ~shouldRecord(dry) THEN [kind |-> "norecord", offset |-> 0, lineNum |-> 0]
    ELSE IF row = None THEN [kind |-> "first", offset |-> 0, lineNum |-> 0]
    ELSE IF size < row.LastSize THEN [kind |-> "compact", offset |-> 0, lineNum |-> 0]
    ELSE IF mt = row.LastMtime /\ size = row.LastSize
         THEN [kind |-> "skip", offset |-> 0, lineNum |-> 0]
    ELSE [kind |-> "incr", offset |-> row.LastOffset, lineNum |-> 0]

\* determineSyncStrategy whose compaction strategy starts the line counter
\* at the stored entry count, as the strategy decision written inline in
\* syncFile does, which reads MessageCount from the row it loaded before it
\* deleted it.
determineSyncStrategy_KeepCount(dry, row, size, mt) ==
    IF ~shouldRecord(dry) THEN [kind |-> "norecord", offset |-> 0, lineNum |-> 0]
    ELSE IF row = None THEN [kind |-> "first", offset |-> 0, lineNum |-> 0]
    ELSE IF size < row.LastSize
         THEN [kind |-> "compact", offset |-> 0, lineNum |-> row.MessageCount]
    ELSE IF mt = row.LastMtime /\ size = row.LastSize
         THEN [kind |-> "skip", offset |-> 0, lineNum |-> 0]
    ELSE [kind |-> "incr", offset |-> row.LastOffset, lineNum |-> row.MessageCount]

\* Syncer.determineSyncStrategy without its store writes: the strategy for
\* a file whose stored row is row and whose stat gave (size, mt).
\* "skip" is the nil strategy.
determineSyncStrategy(dry, row, size, mt) ==
    IF ~shouldRecord(dry) THEN [kind |-> "norecord", offset |-> 0, lineNum |-> 0]
    ELSE IF row = None THEN [kind |-> "first", offset |-> 0, lineNum |-> 0]
    ELSE IF size < row.LastSize THEN [kind |-> "compact", offset |-> 0, lineNum |-> 0]
    ELSE IF mt = row.LastMtime /\ size = row.LastSize
         THEN [kind |-> "skip", offset |-> 0, lineNum |-> 0]
    ELSE [kind |-> "incr", offset |-> row.LastOffset, lineNum |-> row.MessageCount]

\* processAndSendEntry handing the backend each span ahead of the spans it
\* got before.
processAndSendEntry_Prepend(acc, entry, span, path, dry, failAt) ==
    LET hash == GenerateMessageHash(entry) IN
    IF shouldRecord(dry) /\ IsSynced(acc.synced, path, hash) THEN acc
    ELSE IF acc.calls + 1 = failAt
         THEN [acc EXCEPT !.calls = @ + 1, !.err = "send"]
    ELSE [acc EXCEPT !.calls = @ + 1,
                     !.spans = @ + 1,
                     !.emitted = <<[span |-> span, hash |-> hash]>> \o @,
                     !.synced = IF shouldRecord(dry)
                                THEN RecordSyncedMessage(@, path, hash) ELSE @]

\* processAndSendEntry consulting the dedup set in dry-run mode too.
processAndSendEntry_Dedup(acc, entry, span, path, dry, failAt) ==
    LET hash == GenerateMessageHash(entry) IN
    IF IsSynced(acc.synced, path, hash) THEN acc
    ELSE IF acc.calls + 1 = failAt
         THEN [acc EXCEPT !.calls = @ + 1, !.err = "send"]
    ELSE [acc EXCEPT !.calls = @ + 1,
                     !.spans = @ + 1,
                     !.emitted = Append(@, [span |-> span, hash |-> hash]),
                     !.synced = IF shouldRecord(dry)
                                THEN RecordSyncedMessage(@, path, hash) ELSE @]

\* Syncer.processAndSendEntry on the running pass acc: dedup check, SendSpan
\* (which fails when this is call number failAt of the pass), dedup record.
processAndSendEntry(acc, entry, span, path, dry, failAt) ==
    LET hash == GenerateMessageHash(entry) IN
    IF shouldRecord(dry) /\ IsSynced(acc.synced, path, hash) THEN acc
    ELSE IF acc.calls + 1 = failAt
         THEN [acc EXCEPT !.calls = @ + 1, !.err = "send"]
    ELSE [acc EXCEPT !.calls = @ + 1,
                     !.spans = @ + 1,
                     !.emitted = Append(@, [span |-> span, hash |-> hash]),
                     !.synced = IF shouldRecord(dry)
                                THEN RecordSyncedMessage(@, path, hash) ELSE @]

\* processEntries with a line counter that advances on blank lines too.
RECURSIVE processEntries_CountBlank(_, _, _, _, _)
processEntries_CountBlank(tokens, acc, path, dry, failAt) ==
    IF tokens = <<>> THEN acc
    ELSE LET t == Head(tokens) IN
         IF ParserNextErr(t) # "none" THEN [acc EXCEPT !.err = ParserNextErr(t)]
         ELSE LET lineNum == acc.lineNum + 1
                  a1 == [acc EXCEPT !.lineNum = lineNum,
                                    !.traceID = IF @ = "" /\ t.kind # "blank" /\ t.sessionID # ""
                                                THEN t.sessionID ELSE @]
                  m == MapEntry(t, path, lineNum)
              IN IF t.kind = "blank"
                 THEN processEntries_CountBlank(Tail(tokens), a1, path, dry, failAt)
                 ELSE IF m.res = "error"
                 THEN processEntries_CountBlank(Tail(tokens),
                          [a1 EXCEPT !.errlog = IF ~dry THEN RecordError(@, path) ELSE @],
                          path, dry, failAt)
                 ELSE IF m.res = "none"
                 THEN processEntries_CountBlank(Tail(tokens), a1, path, dry, failAt)
                 ELSE LET a2 == processAndSendEntry(a1, t, m.span, path, dry, failAt)
                      IN IF a2.err # "none" THEN a2
                         ELSE processEntries_CountBlank(Tail(tokens), a2, path, dry, failAt)

\* Syncer.processEntries over the tokens the parser yields, from the
\* accumulator acc (line counter, spans so far, dedup set, error log).
RECURSIVE processEntries(_, _, _, _, _)
processEntries(tokens, acc, path, dry, failAt) ==
    IF tokens = <<>> THEN acc
    ELSE LET t == Head(tokens) IN
         IF t.kind = "blank" THEN processEntries(Tail(tokens), acc, path, dry, failAt)
         ELSE IF ParserNextErr(t) # "none" THEN [acc EXCEPT !.err = ParserNextErr(t)]
         ELSE LET lineNum == acc.lineNum + 1
                  a1 == [acc EXCEPT !.lineNum = lineNum,
                                    !.traceID = IF @ = "" /\ t.sessionID # ""
                                                THEN t.sessionID ELSE @]
                  m == MapEntry(t, path, lineNum)
              IN IF m.res = "error"
                 THEN processEntries(Tail(tokens),
                          [a1 EXCEPT !.errlog = IF ~dry THEN RecordError(@, path) ELSE @],
                          path, dry, failAt)
                 ELSE IF m.res = "none"
                 THEN processEntries(Tail(tokens), a1, path, dry, failAt)
                 ELSE LET a2 == processAndSendEntry(a1, t, m.span, path, dry, failAt)
                      IN IF a2.err # "none" THEN a2
                         ELSE processEntries(Tail(tokens), a2, path, dry, failAt)

\* SyncAll's collection loop for one work item.
Collect(res, path, item) ==
    IF item.err # "none"
    THEN [res EXCEPT !.errors[path] = @ + 1]
    ELSE [res EXCEPT !.spans = @ + item.spans,
                     !.updated = IF item.updated THEN @ + 1 ELSE @]

(* ------------------------------- state --------------------------------- *)
VARIABLES
    dir,        \* the conversation files in the projects directory
    files,      \* path -> content of the file, a sequence of lines
    mtime,      \* path -> modification time of the file
    clock,      \* wall clock; counts the writer's writes
    appendOnly, \* path -> the file has only ever been appended to
    state,      \* sync_state table: path -> row or None
    synced,     \* synced_messages table: set of <<path, hash>>
    errlog,     \* sync_errors table: path -> number of rows
    backend,    \* path -> the spans the backend accepted, in order
    phase,      \* "idle", or the entry point running: "all" / "file"
    dryRun,     \* SyncerOptions.DryRun of the syncer of the current run
    todo,       \* paths on fileChan no worker has taken yet
    inflight,   \* path -> strategy of the worker between stat and read, or None
    result,     \* SyncResult of the current (or last) run
    runs,       \* number of runs started
    okAt,       \* clock value at which a SyncAll without errors over files
                \* unchanged since it began returned (-1: none did)
    pass,       \* path -> record of the file's latest pass
    dbFile,     \* the database file at DBPath exists
    workers,    \* Syncer.workers of the syncer of the current run
    busy,       \* worker goroutine -> the path it runs syncFile on, or NoPath
    taken,      \* path -> times the path was received from fileChan in this run
    cancelled,  \* the caller's context of the current run is cancelled
    lastFail,   \* path -> the latest pass whose state save failed, or None
    proc,       \* syncer process -> its position in syncFile (two-process runs)
    now,        \* wall clock read by time.Now()
    mapped,     \* a mapper: the entry it maps and the results of its calls
    sync_state,       \* rows of table sync_state of the database
    synced_messages,  \* rows of table synced_messages
    sync_errors,      \* rows of table sync_errors, in id order
    log,        \* the mutating store calls made on the database so far
    ret,        \* what the latest reading store call returned
    locks,      \* holders of DB.mu and of the write lock of the database file
    gor,        \* goroutine -> its position in DB.SaveState
    srch,       \* one call of history.Search: channel, results, workers
    chans       \* one call of SyncAll at the level of its goroutines and
                \* channels: fileChan, resultChan, workers, collector

vars == <<dir, files, mtime, clock, appendOnly, state, synced, errlog, backend,
          phase, dryRun, todo, inflight, result, runs, okAt, pass,
          dbFile, workers, busy, taken, cancelled, lastFail, proc,
          now, mapped, sync_state, synced_messages, sync_errors, log, ret,
          locks, gor, srch, chans>>

storeVars == <<state, synced, errlog>>
fileVars  == <<dir, files, mtime, clock, appendOnly>>
runVars   == <<phase, dryRun, todo, result, runs, okAt>>
poolVars  == <<workers, busy, taken>>
auxVars   == <<dbFile, cancelled, lastFail, proc>>
tableVars == <<sync_state, synced_messages, sync_errors>>
unitVars  == <<now, mapped, tableVars, log, ret, locks, gor, srch>>
engineVars == <<fileVars, storeVars, backend, runVars, inflight, pass, poolVars, auxVars>>
libVars   == <<unitVars, chans>>
syncVars  == <<engineVars, chans>>

\* All file contents of at most n lines.
RECURSIVE Contents(_)
Contents(n) ==
    IF n = 0 THEN {<<>>}
    ELSE LET shorter == Contents(n - 1) IN
         shorter \cup {Append(c, l) : c \in {d \in shorter : Len(d) = n - 1}, l \in Lines}

NoPass ==
    [run |-> 0, kind |-> "never", done |-> FALSE, raced |-> FALSE, opened |-> FALSE,
     pre |-> None, preSynced |-> {}, size |-> 0, mt |-> 0,
     content |-> <<>>, emitted |-> <<>>, calls |-> 0, spans |-> 0, updated |-> FALSE,
     err |-> "none", offset |-> 0, interrupted |-> FALSE, prevFail |-> None]

\* No path: what an idle worker goroutine holds.
NoPath == ""

\* The worker goroutines SyncAll can start (ids 1 .. s.workers).
WorkerIds == 1..DefaultWorkers

\* NewSyncer ignoring opts.Workers.
NewSyncerWorkers_Ignore(n) == DefaultWorkers

\* NewSyncer: the worker count of the syncer for opts.Workers = n.
NewSyncerWorkers(n) == IF n <= 0 THEN DefaultWorkers ELSE n

\* The syncer processes that can be started on one database.
Procs == {1, 2, 3}

\* The syncer processes of a two-process run.
RaceProcs == {1, 2}

\* A syncer process that is not inside syncFile.
IdleProc ==
    [pc |-> "idle", tokens |-> <<>>, lineNum |-> 0, traceID |-> "", spans |-> 0,
     size |-> 0, mt |-> 0, eof |-> 0, entry |-> None, span |-> None, err |-> "none",
     killedAt |-> ""]

\* A fresh SyncResult; began notes the clock at the start, after whether the
\* run starts right after a SyncAll without errors over the same files,
\* optWorkers the Workers option the syncer of the run was created with.
EmptyResult(kind, n) ==
    [kind |-> kind, scanned |-> n, updated |-> 0, spans |-> 0,
     errors |-> [p \in Paths |-> 0], top |-> "none", began |-> clock, after |-> (okAt = clock),
     optWorkers |-> 0]

\* A work item on resultChan: the path and what syncFile returned for it.
PathItem(path, item) == [path |-> path, item |-> item]

\* No SyncAll is under way at the level of goroutines and channels.
NoRun ==
    [pc |-> "idle", files |-> {}, cap |-> 0, workers |-> 0, unsent |-> {},
     fileChan |-> <<>>, fileClosed |-> FALSE,
     resultChan |-> <<>>, resultClosed |-> FALSE,
     wk |-> [w \in WorkerIds |-> [pc |-> "none", path |-> NoPath, item |-> None]],
     waiter |-> "none",
     res |-> [kind |-> "none", scanned |-> 0, updated |-> 0, spans |-> 0,
              errors |-> [p \in Paths |-> 0]],
     got |-> [p \in Paths |-> 0]]

\* A projects directory holding the files d, all empty, and an empty store.
InitSync(d) ==
    /\ dir = d
    /\ files = [p \in Paths |-> <<>>]
    /\ mtime = [p \in Paths |-> 0]
    /\ clock = 0
    /\ appendOnly = [p \in Paths |-> TRUE]
    /\ state = [p \in Paths |-> None]
    /\ synced = {}
    /\ errlog = [p \in Paths |-> 0]
    /\ backend = [p \in Paths |-> <<>>]
    /\ phase = "idle"
    /\ dryRun = FALSE
    /\ todo = {}
    /\ inflight = [p \in Paths |-> None]
    /\ runs = 0
    /\ okAt = -1
    /\ result = EmptyResult("none", 0)
    /\ pass = [p \in Paths |-> NoPass]
    /\ dbFile = FALSE
    /\ workers = DefaultWorkers
    /\ busy = [w \in WorkerIds |-> NoPath]
    /\ taken = [p \in Paths |-> 0]
    /\ cancelled = FALSE
    /\ lastFail = [p \in Paths |-> None]
    /\ proc = [i \in Procs |-> IdleProc]
    /\ chans = NoRun

\* No mapper call, no store call and no search is under way.
NoMapping == [entry |-> None, path |-> NoPath, lineNum |-> 0, calls |-> <<>>]
NoRet == [op |-> "none", path |-> NoPath, hash |-> "", val |-> None]
NoLocks == [mu |-> 0, wal |-> 0]
NoSearch == [pc |-> "none"]

IdleMapper == now = 0 /\ mapped = NoMapping
IdleDB ==
    /\ sync_state = {} /\ synced_messages = {} /\ sync_errors = <<>>
    /\ log = <<>> /\ ret = NoRet
IdleGoroutines == locks = NoLocks /\ gor = <<>>
IdleSearch == srch = NoSearch

InitLib == IdleMapper /\ IdleDB /\ IdleGoroutines /\ IdleSearch

InitWith(d) == InitSync(d) /\ InitLib

Init == InitWith({"A"})

(* --------------------------- external writer --------------------------- *)
\* A write to p while a worker is between its stat and its read of p.
Raced(p) == [pass EXCEPT ![p].raced = @ \/ inflight[p] # None]

\* The writer appends the lines more to p in one write.
AppendLines(p, more) ==
    /\ p \in dir
    /\ clock < MaxWrites
    /\ more # <<>>
    /\ Len(files[p]) + Len(more) <= MaxLines
    /\ files' = [files EXCEPT ![p] = @ \o more]
    /\ clock' = clock + 1
    /\ mtime' = [mtime EXCEPT ![p] = clock + 1]
    /\ pass' = Raced(p)
    /\ UNCHANGED <<dir, appendOnly, storeVars, backend, runVars, inflight, poolVars, auxVars, libVars>>

\* The writer replaces p by other content (compaction, rotation, rewrite).
Rewrite(p, c) ==
    /\ p \in dir
    /\ clock < MaxWrites
    /\ c # files[p]
    /\ ~(Len(c) > Len(files[p]) /\ SubSeq(c, 1, Len(files[p])) = files[p])
    /\ files' = [files EXCEPT ![p] = c]
    /\ clock' = clock + 1
    /\ mtime' = [mtime EXCEPT ![p] = clock + 1]
    /\ appendOnly' = [appendOnly EXCEPT ![p] = FALSE]
    /\ pass' = Raced(p)
    /\ UNCHANGED <<dir, storeVars, backend, runVars, inflight, poolVars, auxVars, libVars>>

\* The modification time of p advances, its content does not change.
Touch(p) ==
    /\ p \in dir
    /\ clock < MaxWrites
    /\ clock' = clock + 1
    /\ mtime' = [mtime EXCEPT ![p] = clock + 1]
    /\ pass' = Raced(p)
    /\ UNCHANGED <<dir, files, appendOnly, storeVars, backend, runVars, inflight, poolVars, auxVars, libVars>>

\* The state row of p is removed from outside a run (DB.DeleteState); the
\* dedup records stay.
ForgetState(p) ==
    /\ phase = "idle"
    /\ state[p] # None
    /\ state' = DeleteState(state, p)
    /\ pass' = [pass EXCEPT ![p] = NoPass]
    /\ UNCHANGED <<fileVars, synced, errlog, backend, runVars, inflight, poolVars, auxVars, libVars>>

(* ----------------------------- sync runs -------------------------------- *)
\* A receive from fileChan that leaves the path in the channel.
fileChanRecv_Peek(ch, p) == ch

\* `for path := range fileChan`: the receive of p takes it out of the channel.
fileChanRecv(ch, p) == ch \ {p}

\* NewSyncer with DryRun = dry and Workers = n, then Syncer.SyncAll up to
\* the start of the workers: findFiles, the work channel filled and closed.
\* syncdb.Open (creating the database file) runs exactly when not dry.
SyncAllWith(dry, n) ==
    /\ phase = "idle"
    /\ runs < MaxRuns
    /\ phase' = "all"
    /\ dryRun' = dry
    /\ dbFile' = (dbFile \/ ~dry)
    /\ workers' = NewSyncerWorkers(n)
    /\ busy' = [w \in WorkerIds |-> NoPath]
    /\ taken' = [p \in Paths |-> 0]
    /\ cancelled' = FALSE
    /\ todo' = dir
    /\ result' = [EmptyResult("all", Cardinality(dir)) EXCEPT !.optWorkers = n]
    /\ runs' = runs + 1
    /\ pass' = [q \in Paths |-> NoPass]
    /\ UNCHANGED <<fileVars, storeVars, backend, inflight, okAt, lastFail, proc, libVars>>

\* SyncAll of a syncer with the default worker count.
SyncAll(dry) == SyncAllWith(dry, 0)

\* NewSyncer with DryRun = dry, then Syncer.SyncFile: one pass over one path.
SyncFile(p, dry) ==
    /\ p \in dir
    /\ phase = "idle"
    /\ runs < MaxRuns
    /\ phase' = "file"
    /\ dryRun' = dry
    /\ dbFile' = (dbFile \/ ~dry)
    /\ cancelled' = FALSE
    /\ todo' = {p}
    /\ result' = EmptyResult("file", 1)
    /\ runs' = runs + 1
    /\ pass' = [q \in Paths |-> NoPass]
    /\ UNCHANGED <<fileVars, storeVars, backend, inflight, okAt, poolVars, lastFail, proc, libVars>>

WorkItem(spans, updated, err) == [spans |-> spans, updated |-> updated, err |-> err]

\* Syncer.syncFile, first half, on the path p received from the channel:
\* stat, determineSyncStrategy (clearing the dedup set and the row when the
\* file shrank).  statErr: os.Stat fails.
syncFileStatStep(p, statErr) ==
    /\ p \in todo
    /\ todo' = fileChanRecv(todo, p)
    /\ LET size == FileSize(files[p])
           mt   == mtime[p]
           row  == IF shouldRecord(dryRun) THEN GetState(state, p) ELSE None
           st   == determineSyncStrategy(dryRun, row, size, mt)
           begun == [NoPass EXCEPT !.run = runs, !.pre = state[p],
                        !.preSynced = {r[2] : r \in {x \in synced : x[1] = p}},
                        !.size = size, !.mt = mt, !.offset = st.offset,
                        !.prevFail = lastFail[p]]
       IN IF statErr
          THEN /\ result' = Collect(result, p, WorkItem(0, FALSE, "stat"))
               /\ pass' = [pass EXCEPT ![p] =
                              [begun EXCEPT !.kind = "staterr", !.err = "stat", !.done = TRUE]]
               /\ UNCHANGED <<storeVars, inflight>>
          ELSE IF st.kind = "skip"
          THEN /\ result' = Collect(result, p, WorkItem(0, FALSE, "none"))
               /\ pass' = [pass EXCEPT ![p] = [begun EXCEPT !.kind = "skip", !.done = TRUE]]
               /\ UNCHANGED <<storeVars, inflight>>
          ELSE /\ inflight' = [inflight EXCEPT ![p] =
                                  [offset |-> st.offset, lineNum |-> st.lineNum,
                                   size |-> size, mt |-> mt]]
               /\ pass' = [pass EXCEPT ![p] = [begun EXCEPT !.kind = st.kind]]
               /\ IF st.kind = "compact"
                  THEN /\ synced' = ClearFileMessages(synced, p)
                       /\ state' = DeleteState(state, p)
                  ELSE UNCHANGED <<synced, state>>
               /\ UNCHANGED <<errlog, result>>
    /\ UNCHANGED <<fileVars, backend, phase, dryRun, runs, okAt, auxVars, libVars>>

\* syncFileStatStep by one of the workers of the pool, whichever it is: a
\* path is taken while fewer than s.workers passes are in progress.
syncFileStat(p, statErr) ==
    /\ Cardinality({q \in Paths : inflight[q] # None}) < workers
    /\ syncFileStatStep(p, statErr)
    /\ UNCHANGED poolVars

\* saveState recording the size the file has when the pass ends in place of
\* the size of the stat.
saveState_Eof(st, dry, path, eof, size, mt, traceID, lineNum) ==
    IF ~shouldRecord(dry) THEN st
    ELSE SaveState(st, path, SyncState(eof, eof, mt, traceID, lineNum))

\* Syncer.saveState: the offset is the read position at end of stream, the
\* size and mtime are those of the stat.
saveState(st, dry, path, eof, size, mt, traceID, lineNum) ==
    IF ~shouldRecord(dry) THEN st
    ELSE SaveState(st, path, SyncState(eof, size, mt, traceID, lineNum))

\* syncFile saving the state whether or not processEntries failed.
syncFileState_Always(st, dry, path, r, eof, size, mt) ==
    saveState(st, dry, path, eof, size, mt, r.traceID, r.lineNum)

\* Syncer.syncFile after processEntries returned r: the state is saved only
\* when the pass ended without error.
syncFileState(st, dry, path, r, eof, size, mt) ==
    IF r.err # "none" THEN st
    ELSE saveState(st, dry, path, eof, size, mt, r.traceID, r.lineNum)

\* syncFile reporting updated = (spans > 0) when the state save failed.
syncFileReturn_Count(r, saveFails) ==
    WorkItem(r.spans, r.spans > 0, IF r.err = "none" /\ saveFails THEN "save" ELSE r.err)

\* What Syncer.syncFile returns after processEntries returned r: (spans,
\* spans > 0, err) on an error of the pass, (spans, true, err) when
\* DB.SaveState failed, (spans, spans > 0, nil) otherwise.
syncFileReturn(r, saveFails) ==
    IF r.err # "none" THEN WorkItem(r.spans, r.spans > 0, r.err)
    ELSE IF saveFails THEN WorkItem(r.spans, TRUE, "save")
    ELSE WorkItem(r.spans, r.spans > 0, "none")

\* Syncer.syncFile, second half: open, seek, processEntries, saveState.
\* openErr: os.Open fails.  failAt: the SendSpan call of this pass that
\* returns an error (0: none does).  saveErr: DB.SaveState fails.
syncFileReadStep(p, openErr, failAt, saveErr) ==
    /\ inflight[p] # None
    /\ inflight' = [inflight EXCEPT ![p] = None]
    /\ LET st == inflight[p] IN
       IF openErr
       THEN /\ result' = Collect(result, p, WorkItem(0, FALSE, "open"))
            /\ pass' = [pass EXCEPT ![p].err = "open", ![p].done = TRUE,
                           ![p].interrupted = cancelled]
            /\ UNCHANGED <<storeVars, backend, lastFail>>
       ELSE LET tokens == ReadFrom(files[p], st.offset)
                acc0 == [lineNum |-> st.lineNum, spans |-> 0, traceID |-> "",
                         emitted |-> <<>>, calls |-> 0, err |-> "none",
                         synced |-> synced, errlog |-> errlog]
                r == processEntries(tokens, acc0, p, dryRun, failAt)
                saveFails == saveErr /\ shouldRecord(dryRun) /\ r.err = "none"
                item == syncFileReturn(r, saveFails)
            IN /\ synced' = r.synced
               /\ errlog' = r.errlog
               /\ backend' = [backend EXCEPT ![p] = @ \o r.emitted]
               /\ state' = IF saveFails THEN state
                           ELSE syncFileState(state, dryRun, p, r,
                                              SeekCurrent(files[p], st.offset),
                                              st.size, st.mt)
               /\ result' = Collect(result, p, item)
               /\ lastFail' = [lastFail EXCEPT ![p] =
                                 IF saveFails
                                 THEN [offset |-> st.offset, content |-> files[p],
                                       hashes |-> {r.emitted[i].hash : i \in DOMAIN r.emitted}]
                                 ELSE None]
               /\ pass' = [pass EXCEPT ![p].opened = TRUE, ![p].done = TRUE,
                              ![p].content = files[p], ![p].emitted = r.emitted,
                              ![p].calls = r.calls, ![p].spans = r.spans,
                              ![p].updated = item.updated, ![p].err = item.err,
                              ![p].interrupted = cancelled]
    /\ UNCHANGED <<fileVars, phase, dryRun, todo, runs, okAt, dbFile, cancelled, proc, libVars>>

\* syncFileReadStep with a store whose SaveState succeeds, by whichever
\* worker holds p.
syncFileRead(p, openErr, failAt) ==
    /\ syncFileReadStep(p, openErr, failAt, FALSE)
    /\ UNCHANGED poolVars

\* syncFileReadStep with a store whose SaveState may fail.
syncFileReadStore(p, openErr, failAt, saveErr) ==
    /\ syncFileReadStep(p, openErr, failAt, saveErr)
    /\ UNCHANGED poolVars

\* One worker goroutine of SyncAll, idle, receives p from fileChan and runs
\* syncFile on it up to the open of the file.
workerTake(w, p, statErr) ==
    /\ w \in 1..workers
    /\ busy[w] = NoPath
    /\ syncFileStatStep(p, statErr)
    /\ busy' = [busy EXCEPT ![w] = IF inflight'[p] # None THEN p ELSE NoPath]
    /\ taken' = [taken EXCEPT ![p] = @ + 1]
    /\ UNCHANGED workers

\* The worker goroutine w completes syncFile on the path it holds and sends
\* the work item on resultChan.
workerFinish(w, openErr, failAt) ==
    /\ busy[w] # NoPath
    /\ syncFileReadStep(busy[w], openErr, failAt, FALSE)
    /\ busy' = [busy EXCEPT ![w] = NoPath]
    /\ UNCHANGED <<workers, taken>>

\* The caller cancels the context it passed to SyncAll.  Nothing in SyncAll,
\* syncFile or processEntries reads ctx: it is only handed to
\* Backend.SendSpan, whose error (if the backend returns one) is the failAt
\* input of the pass.
Cancel ==
    /\ phase = "all"
    /\ ~cancelled
    /\ cancelled' = TRUE
    /\ UNCHANGED <<fileVars, storeVars, backend, runVars, inflight, pass, poolVars,
                   dbFile, lastFail, proc, libVars>>

\* SyncAll / SyncFile returns: every worker has exited and the result
\* channel is drained.
Return ==
    /\ phase # "idle"
    /\ todo = {}
    /\ \A p \in Paths : inflight[p] = None
    /\ \A w \in WorkerIds : busy[w] = NoPath
    /\ phase' = "idle"
    /\ okAt' = IF phase = "all"
               THEN IF clock = result.began /\ \A p \in Paths : result.errors[p] = 0
                    THEN clock ELSE -1
               ELSE okAt
    /\ UNCHANGED <<fileVars, storeVars, backend, dryRun, todo, inflight, result, runs, pass,
                   poolVars, auxVars, libVars>>

Next ==
    \/ \E p \in Paths, more \in Contents(MaxLines) : AppendLines(p, more)
    \/ \E p \in Paths, c \in Contents(MaxLines) : Rewrite(p, c)
    \/ \E p \in Paths : Touch(p)
    \/ \E p \in Paths : ForgetState(p)
    \/ SyncAll(FALSE)
    \/ \E p \in dir : SyncFile(p, FALSE)
    \/ \E p \in Paths, statErr \in BOOLEAN : syncFileStat(p, statErr)
    \/ \E p \in Paths, openErr \in BOOLEAN, failAt \in 0..MaxLines :
          syncFileRead(p, openErr, failAt)
    \/ Return

Spec == Init /\ [][Next]_vars

\* A directory of two conversation files that are only appended to, with
\* message entries or a malformed line, synced by SyncAll.
DirAppends == {c \in Contents(MaxLines) : \A i \in 1..Len(c) : c[i] \in {UserA, AssistB, Garbage}}

InitDir == InitWith(Paths)

NextDir ==
    \/ \E p \in Paths, more \in DirAppends : AppendLines(p, more)
    \/ SyncAll(FALSE)
    \/ \E p \in Paths, statErr \in BOOLEAN : syncFileStat(p, statErr)
    \/ \E p \in Paths, openErr \in BOOLEAN, failAt \in 0..MaxLines :
          syncFileRead(p, openErr, failAt)
    \/ Return

SpecDir == InitDir /\ [][NextDir]_vars

\* One conversation file that is appended to, synced by real and by dry-run
\* syncers in any order.
DryAppends ==
    {c \in Contents(MaxLines) :
        \A i \in 1..Len(c) : c[i] \in {UserA, AssistB, BrokenMsg, Garbage}}

NextDry ==
    \/ \E p \in Paths, more \in DryAppends : AppendLines(p, more)
    \/ \E dry \in BOOLEAN : SyncAll(dry)
    \/ \E p \in Paths, dry \in BOOLEAN : SyncFile(p, dry)
    \/ \E p \in Paths, statErr \in BOOLEAN : syncFileStat(p, statErr)
    \/ \E p \in Paths, openErr \in BOOLEAN, failAt \in 0..MaxLines :
          syncFileRead(p, openErr, failAt)
    \/ Return

SpecDry == Init /\ [][NextDry]_vars

\* The Workers options a syncer is created with.
WorkerOpts == {-1, 0, 1, 2}

\* What the writer appends to a file of the pool's directory.
PoolAppends == {<<UserA>>, <<UserA, AssistB>>}

\* SyncAll over two files with its pool of worker goroutines, each worker
\* a sequential loop over the work channel.
NextPool ==
    \/ \E p \in Paths, more \in PoolAppends : AppendLines(p, more)
    \/ \E n \in WorkerOpts : SyncAllWith(FALSE, n)
    \/ \E w \in WorkerIds, p \in Paths, statErr \in BOOLEAN : workerTake(w, p, statErr)
    \/ \E w \in WorkerIds, openErr \in BOOLEAN, failAt \in 0..MaxLines :
          workerFinish(w, openErr, failAt)
    \/ Return

SpecPool == InitDir /\ [][NextPool]_vars

\* SyncAll over one file that is appended to, with a caller that may cancel
\* the context of the run at any moment.
NextCancel ==
    \/ \E p \in Paths, more \in DirAppends : AppendLines(p, more)
    \/ SyncAll(FALSE)
    \/ Cancel
    \/ \E p \in Paths, statErr \in BOOLEAN : syncFileStat(p, statErr)
    \/ \E p \in Paths, openErr \in BOOLEAN, failAt \in 0..MaxLines :
          syncFileRead(p, openErr, failAt)
    \/ Return

SpecCancel == Init /\ [][NextCancel]_vars

\* SyncAll over one file that is appended to or rewritten, with a store
\* whose SaveState may fail.
NextStore ==
    \/ \E p \in Paths, more \in DirAppends : AppendLines(p, more)
    \/ \E p \in Paths, c \in DirAppends : Rewrite(p, c)
    \/ SyncAll(FALSE)
    \/ \E p \in Paths, statErr \in BOOLEAN : syncFileStat(p, statErr)
    \/ \E p \in Paths, openErr \in BOOLEAN, failAt \in 0..MaxLines, saveErr \in BOOLEAN :
          syncFileReadStore(p, openErr, failAt, saveErr)
    \/ Return

SpecStore == Init /\ [][NextStore]_vars

\* What the writer leaves in a file that may hold lines the parser cannot
\* read.
ParseAppends == UNION {[1..n -> {UserA, AssistB, Garbage, Oversize}] : n \in 0..MaxLines}

\* SyncAll over one file that is appended to or rewritten with entries,
\* malformed lines and oversized lines.
NextParse ==
    \/ \E p \in Paths, more \in ParseAppends : AppendLines(p, more)
    \/ \E p \in Paths, c \in ParseAppends : Rewrite(p, c)
    \/ SyncAll(FALSE)
    \/ \E p \in Paths, statErr \in BOOLEAN : syncFileStat(p, statErr)
    \/ \E p \in Paths, openErr \in BOOLEAN, failAt \in 0..MaxLines :
          syncFileRead(p, openErr, failAt)
    \/ Return

SpecParse == Init /\ [][NextParse]_vars

(* ----------------------------- the mapper ------------------------------ *)
\* Latest reading of the wall clock.
MaxNow == 2

\* The timestamps an entry may carry: none, one that is not RFC 3339, and
\* RFC 3339 without and with a fraction of a second.
Timestamps == {"", "yesterday", "2025-01-01T12:00:00Z", "2025-01-01T12:00:00.5Z"}

\* The entries handed to the mapper.
MapperEntries ==
    {[Line("entry", t, u, "S1", m) EXCEPT !.timestamp = ts] :
        t \in {"user", "assistant", "summary", "system", "file-history-snapshot"},
        u \in {"", "a"}, ts \in Timestamps, m \in {"text", "notjson"}}

\* A mapper created for a file, about to map one entry at one line number.
InitMapper ==
    /\ InitSync({})
    /\ now = 0
    /\ mapped \in {[entry |-> e, path |-> p, lineNum |-> n, calls |-> <<>>] :
                      e \in MapperEntries, p \in Paths, n \in 1..MaxLines}
    /\ IdleDB /\ IdleGoroutines /\ IdleSearch

\* Time passes.
Tick ==
    /\ now < MaxNow
    /\ now' = now + 1
    /\ UNCHANGED <<syncVars, mapped, tableVars, log, ret, locks, gor, srch>>

\* Mapper.MapEntry and GenerateMessageHash on the entry, for the first or
\* the second time.
mapEntryCall ==
    /\ mapped.entry # None
    /\ Len(mapped.calls) < 2
    /\ mapped' = [mapped EXCEPT !.calls =
                     Append(@, [at |-> now,
                                out |-> MapEntryAt(mapped.entry, mapped.path,
                                                   mapped.lineNum, now),
                                hash |-> GenerateMessageHash(mapped.entry)])]
    /\ UNCHANGED <<syncVars, now, tableVars, log, ret, locks, gor, srch>>

NextMapper == Tick \/ mapEntryCall

SpecMapper == InitMapper /\ [][NextMapper]_vars

(* --------------------- one caller of the database ---------------------- *)
\* Number of mutating calls made on the database.
MaxOps == 3

\* The states, content hashes and span ids the caller passes.
DBRows == {SyncState(3, 3, 1, "S1", 1), SyncState(7, 7, 2, "", 2)}
DBHashes == {"h1", "h2"}
DBSpanIDs == {"s1", "s2"}

\* An open, empty database (syncdb.Open on a new file) with one caller.
InitDB == InitSync({}) /\ InitLib

\* DB.SaveState(&SyncState{FilePath: p, ...r}).
dbSaveState(p, r) ==
    /\ Len(log) < MaxOps
    /\ locks.mu = 0
    /\ sync_state' = InsertOrReplaceState(sync_state, StateRow(p, r))
    /\ log' = Append(log, <<"SaveState", p, r>>)
    /\ ret' = NoRet
    /\ UNCHANGED <<syncVars, now, mapped, synced_messages, sync_errors, locks, gor, srch>>

\* DB.DeleteState(p).
dbDeleteState(p) ==
    /\ Len(log) < MaxOps
    /\ locks.mu = 0
    /\ sync_state' = DeleteStateRows(sync_state, p)
    /\ log' = Append(log, <<"DeleteState", p>>)
    /\ ret' = NoRet
    /\ UNCHANGED <<syncVars, now, mapped, synced_messages, sync_errors, locks, gor, srch>>

\* DB.RecordSyncedMessage(p, h, id).
dbRecordSyncedMessage(p, h, id) ==
    /\ Len(log) < MaxOps
    /\ locks.mu = 0
    /\ synced_messages' = InsertOrReplaceMessage(synced_messages, MessageRow(p, h, id))
    /\ log' = Append(log, <<"RecordSyncedMessage", p, h, id>>)
    /\ ret' = NoRet
    /\ UNCHANGED <<syncVars, now, mapped, sync_state, sync_errors, locks, gor, srch>>

\* DB.ClearFileMessages(p).
dbClearFileMessages(p) ==
    /\ Len(log) < MaxOps
    /\ locks.mu = 0
    /\ synced_messages' = DeleteMessages(synced_messages, p)
    /\ log' = Append(log, <<"ClearFileMessages", p>>)
    /\ ret' = NoRet
    /\ UNCHANGED <<syncVars, now, mapped, sync_state, sync_errors, locks, gor, srch>>

\* DB.RecordError(p, msg).
dbRecordError(p) ==
    /\ Len(log) < MaxOps
    /\ locks.mu = 0
    /\ sync_errors' = Append(sync_errors, p)
    /\ log' = Append(log, <<"RecordError", p>>)
    /\ ret' = NoRet
    /\ UNCHANGED <<syncVars, now, mapped, sync_state, synced_messages, locks, gor, srch>>

\* DB.GetState(p).
dbGetState(p) ==
    /\ ret' = [op |-> "GetState", path |-> p, hash |-> "",
               val |-> SelectState(sync_state, p)]
    /\ UNCHANGED <<syncVars, now, mapped, tableVars, log, locks, gor, srch>>

\* DB.IsSynced(p, h).
dbIsSynced(p, h) ==
    /\ ret' = [op |-> "IsSynced", path |-> p, hash |-> h,
               val |-> CountMessages(synced_messages, p, h) > 0]
    /\ UNCHANGED <<syncVars, now, mapped, tableVars, log, locks, gor, srch>>

\* DB.Stats().
dbStats ==
    /\ ret' = [op |-> "Stats", path |-> NoPath, hash |-> "",
               val |-> Stats(sync_state, synced_messages)]
    /\ UNCHANGED <<syncVars, now, mapped, tableVars, log, locks, gor, srch>>

NextDB ==
    \/ \E p \in Paths, r \in DBRows : dbSaveState(p, r)
    \/ \E p \in Paths : dbDeleteState(p)
    \/ \E p \in Paths, h \in DBHashes, id \in DBSpanIDs : dbRecordSyncedMessage(p, h, id)
    \/ \E p \in Paths : dbClearFileMessages(p)
    \/ \E p \in Paths : dbRecordError(p)
    \/ \E p \in Paths : dbGetState(p)
    \/ \E p \in Paths, h \in DBHashes : dbIsSynced(p, h)
    \/ dbStats

SpecDB == InitDB /\ [][NextDB]_vars

(* ------------------ goroutines saving states concurrently -------------- *)
\* Number of goroutines calling DB.SaveState at the same time.
NumGoroutines == 3

Goroutines == 1..NumGoroutines

\* The path goroutine g saves the state of: filepath.Join("/file", g).
GoroutinePath(g) == "/file/" \o ToString(g)

\* A mutex that lets every caller in.
muFree_Always(mu) == TRUE

\* d.mu.Lock() can return: no goroutine holds the mutex.
muFree(mu) == mu = 0

\* An open, empty database and goroutines about to call DB.SaveState, each
\* for its own path.
InitGoroutines ==
    /\ InitSync({})
    /\ IdleMapper /\ IdleDB /\ IdleSearch
    /\ locks = NoLocks
    /\ gor \in [Goroutines -> {[pc |-> "start", err |-> "none", state |-> r, nth |-> 0] :
                                  r \in DBRows}]

\* DB.SaveState in goroutine g: d.mu.Lock().
goLock(g) ==
    /\ gor[g].pc = "start"
    /\ muFree(locks.mu)
    /\ locks' = [locks EXCEPT !.mu = g]
    /\ gor' = [gor EXCEPT ![g].pc = "locked"]
    /\ UNCHANGED <<syncVars, now, mapped, tableVars, log, ret, srch>>

\* d.db.Exec starts the INSERT OR REPLACE on a connection of the pool: it
\* takes the write lock of the database file, or fails with SQLITE_BUSY
\* when another connection is writing.
goExecBegin(g) ==
    /\ gor[g].pc = "locked"
    /\ IF locks.wal = 0
       THEN /\ locks' = [locks EXCEPT !.wal = g]
            /\ gor' = [gor EXCEPT ![g].pc = "writing"]
       ELSE /\ gor' = [gor EXCEPT ![g].pc = "unlock", ![g].err = "SQLITE_BUSY"]
            /\ UNCHANGED locks
    /\ UNCHANGED <<syncVars, now, mapped, tableVars, log, ret, srch>>

\* The statement commits: the row is in the table, the write lock released.
goExecCommit(g) ==
    /\ gor[g].pc = "writing"
    /\ sync_state' = InsertOrReplaceState(sync_state,
                                          StateRow(GoroutinePath(g), gor[g].state))
    /\ locks' = [locks EXCEPT !.wal = 0]
    /\ gor' = [gor EXCEPT ![g].pc = "unlock", ![g].nth = Cardinality(sync_state')]
    /\ UNCHANGED <<syncVars, now, mapped, synced_messages, sync_errors, log, ret, srch>>

\* The deferred d.mu.Unlock(); SaveState returns err.
goUnlock(g) ==
    /\ gor[g].pc = "unlock"
    /\ locks' = [locks EXCEPT !.mu = 0]
    /\ gor' = [gor EXCEPT ![g].pc = "done"]
    /\ UNCHANGED <<syncVars, now, mapped, tableVars, log, ret, srch>>

NextGoroutines ==
    \/ \E g \in Goroutines : goLock(g)
    \/ \E g \in Goroutines : goExecBegin(g)
    \/ \E g \in Goroutines : goExecCommit(g)
    \/ \E g \in Goroutines : goUnlock(g)

SpecGoroutines == InitGoroutines /\ [][NextGoroutines]_vars

(* ---------------------------- history.Search --------------------------- *)
\* Number of conversation files findFiles returns.
NumSearchFiles == 3
\* Largest Limit option.
MaxLimit == 2

\* The files findFiles returns, in the order they are put on fileChan.
SearchFiles == [i \in 1..NumSearchFiles |-> "f" \o ToString(i)]

\* The Workers options Search is called with.
SearchWorkerOpts == {0, 2}

\* Search: opts.Workers <= 0 is coerced to 4.
SearchWorkers(n) == IF n <= 0 THEN 4 ELSE n

\* A receive from fileChan that leaves the path in the channel.
searchChanRecv_Peek(ch) == ch

\* `for path := range fileChan`: the receive takes the head of the channel.
searchChanRecv(ch) == Tail(ch)

\* searchFile: a result when the file holds a message matching the query
\* and neither os.Open nor ScanConversationMeta fails, nil (None) otherwise.
searchFile(path, matching, ioErr) ==
    IF path \in matching /\ ~ioErr THEN [path |-> path, MatchCount |-> 1] ELSE None

\* A worker goroutine of Search before its first receive.
IdleSearcher == [pc |-> "recv", path |-> NoPath, result |-> None]

\* Search called with Limit = limit and Workers = n over files of which
\* those in matching hold the query: findFiles done, the channel filled and
\* closed, the workers started.
InitSearch ==
    /\ InitSync({})
    /\ IdleMapper /\ IdleDB /\ IdleGoroutines
    /\ srch \in {[pc |-> "run", limit |-> limit, matching |-> matching,
                   chan |-> SearchFiles, results |-> <<>>, mu |-> 0,
                   w |-> [i \in 1..SearchWorkers(n) |-> IdleSearcher],
                   ret |-> <<>>] :
                  limit \in 0..MaxLimit, n \in SearchWorkerOpts,
                  matching \in SUBSET {SearchFiles[i] : i \in 1..NumSearchFiles}}

\* Worker i: `for path := range fileChan`, the loop ending when the closed
\* channel is empty.
searchRecv(i) ==
    /\ srch.pc = "run"
    /\ i \in DOMAIN srch.w
    /\ srch.w[i].pc = "recv"
    /\ srch' = IF srch.chan = <<>>
               THEN [srch EXCEPT !.w[i].pc = "exit"]
               ELSE [srch EXCEPT !.w[i].pc = "search",
                                 !.w[i].path = Head(srch.chan),
                                 !.chan = searchChanRecv(@)]
    /\ UNCHANGED <<syncVars, now, mapped, tableVars, log, ret, locks, gor>>

\* Worker i: searchFile(path, ...); `if result != nil`.
searchFileCall(i, ioErr) ==
    /\ srch.pc = "run"
    /\ i \in DOMAIN srch.w
    /\ srch.w[i].pc = "search"
    /\ LET found == searchFile(srch.w[i].path, srch.matching, ioErr)
       IN srch' = IF found = None
                  THEN [srch EXCEPT !.w[i].pc = "recv"]
                  ELSE [srch EXCEPT !.w[i].pc = "lock", !.w[i].result = found]
    /\ UNCHANGED <<syncVars, now, mapped, tableVars, log, ret, locks, gor>>

\* Worker i: mu.Lock().
searchLock(i) ==
    /\ srch.pc = "run"
    /\ i \in DOMAIN srch.w
    /\ srch.w[i].pc = "lock"
    /\ srch.mu = 0
    /\ srch' = [srch EXCEPT !.mu = i, !.w[i].pc = "locked"]
    /\ UNCHANGED <<syncVars, now, mapped, tableVars, log, ret, locks, gor>>

\* Worker i, holding mu: the limit check, which ends the worker, or the
\* append; mu.Unlock().
searchAppend(i) ==
    /\ srch.pc = "run"
    /\ i \in DOMAIN srch.w
    /\ srch.w[i].pc = "locked"
    /\ srch' = IF srch.limit > 0 /\ Len(srch.results) >= srch.limit
               THEN [srch EXCEPT !.mu = 0, !.w[i].pc = "exit"]
               ELSE [srch EXCEPT !.mu = 0, !.w[i].pc = "recv",
                                 !.results = Append(@, srch.w[i].result)]
    /\ UNCHANGED <<syncVars, now, mapped, tableVars, log, ret, locks, gor>>

\* wg.Wait() returns, the limit is applied, Search returns results.
searchReturn ==
    /\ srch.pc = "run"
    /\ \A i \in DOMAIN srch.w : srch.w[i].pc = "exit"
    /\ srch' = [srch EXCEPT !.pc = "returned",
                            !.ret = IF srch.limit > 0 /\ Len(srch.results) > srch.limit
                                    THEN SubSeq(srch.results, 1, srch.limit)
                                    ELSE srch.results]
    /\ UNCHANGED <<syncVars, now, mapped, tableVars, log, ret, locks, gor>>

NextSearch ==
    \/ \E i \in 1..4 : searchRecv(i)
    \/ \E i \in 1..4, ioErr \in BOOLEAN : searchFileCall(i, ioErr)
    \/ \E i \in 1..4 : searchLock(i)
    \/ \E i \in 1..4 : searchAppend(i)
    \/ searchReturn

SpecSearch == InitSearch /\ [][NextSearch]_vars

(* ------------------- two syncer processes, one database ---------------- *)
\* The file both processes sync.
RaceFile == "A"

\* Process i enters syncFile on RaceFile: stat, determineSyncStrategy (with
\* its store writes when the file shrank), open and seek.
procStat(i) ==
    /\ proc[i].pc = "idle"
    /\ LET size == FileSize(files[RaceFile])
           mt   == mtime[RaceFile]
           st   == determineSyncStrategy(FALSE, GetState(state, RaceFile), size, mt)
       IN /\ proc' = [proc EXCEPT ![i] =
                        IF st.kind = "skip" THEN [IdleProc EXCEPT !.pc = "done"]
                        ELSE [IdleProc EXCEPT !.pc = "next",
                                 !.tokens = ReadFrom(files[RaceFile], st.offset),
                                 !.lineNum = st.lineNum, !.size = size, !.mt = mt,
                                 !.eof = SeekCurrent(files[RaceFile], st.offset)]]
          /\ IF st.kind = "compact"
             THEN /\ synced' = ClearFileMessages(synced, RaceFile)
                  /\ state' = DeleteState(state, RaceFile)
             ELSE UNCHANGED <<synced, state>>
    /\ UNCHANGED <<fileVars, errlog, backend, runVars, inflight, pass, poolVars,
                   dbFile, cancelled, lastFail, libVars>>

\* One turn of the loop of processEntries in process i, up to the dedup
\* check of processAndSendEntry: parser.Next, MapEntry, IsSynced; at end of
\* stream, saveState.
procNext(i) ==
    /\ proc[i].pc = "next"
    /\ LET me == proc[i] IN
       IF me.tokens = <<>>
       THEN /\ state' = saveState(state, FALSE, RaceFile, me.eof, me.size, me.mt,
                                  me.traceID, me.lineNum)
            /\ proc' = [proc EXCEPT ![i].pc = "done"]
            /\ UNCHANGED errlog
       ELSE LET t == Head(me.tokens)
                rest == Tail(me.tokens)
            IN IF t.kind = "blank"
               THEN /\ proc' = [proc EXCEPT ![i].tokens = rest]
                    /\ UNCHANGED <<state, errlog>>
               ELSE IF ParserNextErr(t) # "none"
               THEN /\ proc' = [proc EXCEPT ![i].pc = "done", ![i].err = ParserNextErr(t)]
                    /\ UNCHANGED <<state, errlog>>
               ELSE LET lineNum == me.lineNum + 1
                        m == MapEntry(t, RaceFile, lineNum)
                        read == [me EXCEPT !.tokens = rest, !.lineNum = lineNum,
                                           !.traceID = IF @ = "" /\ t.sessionID # ""
                                                       THEN t.sessionID ELSE @]
                    IN /\ errlog' = IF m.res = "error" THEN RecordError(errlog, RaceFile)
                                    ELSE errlog
                       /\ proc' = [proc EXCEPT ![i] =
                                     IF m.res = "span"
                                        /\ ~IsSynced(synced, RaceFile, GenerateMessageHash(t))
                                     THEN [read EXCEPT !.pc = "send", !.entry = t,
                                                       !.span = m.span]
                                     ELSE read]
                       /\ UNCHANGED state
    /\ UNCHANGED <<fileVars, synced, backend, runVars, inflight, pass, poolVars,
                   dbFile, cancelled, lastFail, libVars>>

\* backend.SendSpan of the span process i holds.  sendErr: it returns an
\* error and the pass of process i is aborted.
procSend(i, sendErr) ==
    /\ proc[i].pc = "send"
    /\ IF sendErr
       THEN /\ proc' = [proc EXCEPT ![i].pc = "done", ![i].err = "send"]
            /\ UNCHANGED backend
       ELSE /\ proc' = [proc EXCEPT ![i].pc = "record"]
            /\ backend' = [backend EXCEPT ![RaceFile] =
                              Append(@, [span |-> proc[i].span,
                                         hash |-> GenerateMessageHash(proc[i].entry)])]
    /\ UNCHANGED <<fileVars, storeVars, runVars, inflight, pass, poolVars,
                   dbFile, cancelled, lastFail, libVars>>

\* RecordSyncedMessage for the span process i has sent.
procRecord(i) ==
    /\ proc[i].pc = "record"
    /\ synced' = RecordSyncedMessage(synced, RaceFile, GenerateMessageHash(proc[i].entry))
    /\ proc' = [proc EXCEPT ![i].pc = "next", ![i].spans = @ + 1,
                            ![i].entry = None, ![i].span = None]
    /\ UNCHANGED <<fileVars, state, errlog, backend, runVars, inflight, pass, poolVars,
                   dbFile, cancelled, lastFail, libVars>>

\* Two syncer processes sharing one database run syncFile on the same file
\* once each, their store statements and backend calls interleaved, while
\* the file is appended to.
NextRace ==
    \/ \E more \in DirAppends : AppendLines(RaceFile, more)
    \/ \E i \in RaceProcs : procStat(i)
    \/ \E i \in RaceProcs : procNext(i)
    \/ \E i \in RaceProcs, sendErr \in BOOLEAN : procSend(i, sendErr)
    \/ \E i \in RaceProcs : procRecord(i)

SpecRace == Init /\ [][NextRace]_vars

(* ------------------- a syncer process killed and restarted -------------- *)
\* Process i is started when every process started before it has exited or
\* was killed, and enters syncFile on RaceFile.
crashStart(i) ==
    /\ \A j \in Procs : j < i => proc[j].pc \in {"done", "killed"}
    /\ procStat(i)

\* Process i is killed inside syncFile, between two of its store statements
\* and backend calls: nothing it holds in memory survives, the tables and
\* what the backend accepted stay.  killedAt keeps the position.
kill(i) ==
    /\ proc[i].pc \in {"next", "send", "record"}
    /\ proc' = [proc EXCEPT ![i].pc = "killed", ![i].killedAt = proc[i].pc]
    /\ UNCHANGED <<fileVars, storeVars, backend, runVars, inflight, pass, poolVars,
                   dbFile, cancelled, lastFail, libVars>>

\* One syncer process at a time runs syncFile on a file that is only
\* appended to; a process may be killed at any point of its pass and the
\* next one started later.
NextCrash ==
    \/ \E more \in DirAppends : AppendLines(RaceFile, more)
    \/ \E i \in Procs : crashStart(i)
    \/ \E i \in Procs : procNext(i)
    \/ \E i \in Procs, sendErr \in BOOLEAN : procSend(i, sendErr)
    \/ \E i \in Procs : procRecord(i)
    \/ \E i \in Procs : kill(i)

SpecCrash == Init /\ [][NextCrash]_vars

(* ------------- SyncAll: goroutines, fileChan and resultChan ------------- *)
\* make(chan T) in place of make(chan T, n): an unbuffered channel.
makeChan_Unbuffered(n) == 0

\* make(chan T, len(files)): the capacity of fileChan and of resultChan.
makeChan(n) == n

\* A send on a channel of capacity cap holding buf can proceed: there is
\* room in the buffer, or the channel is unbuffered and a receiver is ready
\* (the value then passes through buf to that receiver).
CanSend(buf, cap, receiverReady) ==
    \/ Len(buf) < cap
    \/ cap = 0 /\ buf = <<>> /\ receiverReady

\* What syncFile may return for a path.
SyncFileReturns ==
    {WorkItem(0, FALSE, "none"), WorkItem(1, TRUE, "none"),
     WorkItem(0, FALSE, "stat"), WorkItem(1, TRUE, "send")}

\* The directories SyncAll may find.
Dirs == SUBSET Paths

\* SyncAll on a syncer with Workers = n over the directory d, up to the
\* start of the worker goroutines.  findErr: findFiles returns an error and
\* SyncAll returns it.
allStart(d, n, findErr) ==
    /\ chans.pc \in {"idle", "done", "failed"}
    /\ chans' = IF findErr THEN [NoRun EXCEPT !.pc = "failed"]
                ELSE [NoRun EXCEPT
                        !.pc = "send", !.files = d, !.unsent = d,
                        !.cap = makeChan(Cardinality(d)),
                        !.workers = NewSyncerWorkers(n),
                        !.wk = [w \in WorkerIds |->
                                  [pc |-> IF w <= NewSyncerWorkers(n) THEN "recv" ELSE "none",
                                   path |-> NoPath, item |-> None]],
                        !.res = [kind |-> "all", scanned |-> Cardinality(d), updated |-> 0,
                                 spans |-> 0, errors |-> [p \in Paths |-> 0]]]
    /\ UNCHANGED <<engineVars, unitVars>>

\* `fileChan <- f` for one of the files found.
mainSend(p) ==
    /\ chans.pc = "send"
    /\ p \in chans.unsent
    /\ CanSend(chans.fileChan, chans.cap, \E w \in WorkerIds : chans.wk[w].pc = "recv")
    /\ chans' = [chans EXCEPT !.fileChan = Append(@, p), !.unsent = @ \ {p}]
    /\ UNCHANGED <<engineVars, unitVars>>

\* close(fileChan), then the goroutine that waits for the workers is
\* started and the collection loop entered.
mainClose ==
    /\ chans.pc = "send"
    /\ chans.unsent = {}
    /\ chans' = [chans EXCEPT !.fileClosed = TRUE, !.waiter = "wait", !.pc = "collect"]
    /\ UNCHANGED <<engineVars, unitVars>>

\* `for path := range fileChan` in worker w: a path is received.
workerRecv(w) ==
    /\ chans.wk[w].pc = "recv"
    /\ chans.fileChan # <<>>
    /\ chans' = [chans EXCEPT !.fileChan = Tail(@),
                              !.wk[w] = [pc |-> "work", path |-> Head(chans.fileChan),
                                         item |-> None]]
    /\ UNCHANGED <<engineVars, unitVars>>

\* The range loop of worker w ends on the closed, drained fileChan:
\* wg.Done().
workerExit(w) ==
    /\ chans.wk[w].pc = "recv"
    /\ chans.fileChan = <<>> /\ chans.fileClosed
    /\ chans' = [chans EXCEPT !.wk[w].pc = "exit"]
    /\ UNCHANGED <<engineVars, unitVars>>

\* s.syncFile(ctx, path) returns in worker w.
workerSyncFile(w, item) ==
    /\ chans.wk[w].pc = "work"
    /\ chans' = [chans EXCEPT !.wk[w].pc = "send", !.wk[w].item = item]
    /\ UNCHANGED <<engineVars, unitVars>>

\* `resultChan <- workItem{...}` in worker w.
workerSend(w) ==
    /\ chans.wk[w].pc = "send"
    /\ CanSend(chans.resultChan, chans.cap, chans.pc = "collect")
    /\ chans' = [chans EXCEPT
                    !.resultChan = Append(@, PathItem(chans.wk[w].path, chans.wk[w].item)),
                    !.wk[w] = [pc |-> "recv", path |-> NoPath, item |-> None]]
    /\ UNCHANGED <<engineVars, unitVars>>

\* wg.Wait() returns in the waiting goroutine: close(resultChan).
waiterClose ==
    /\ chans.waiter = "wait"
    /\ \A w \in WorkerIds : chans.wk[w].pc \in {"none", "exit"}
    /\ chans' = [chans EXCEPT !.waiter = "exit", !.resultClosed = TRUE]
    /\ UNCHANGED <<engineVars, unitVars>>

\* One turn of `for item := range resultChan`.
mainCollect ==
    /\ chans.pc = "collect"
    /\ chans.resultChan # <<>>
    /\ LET x == Head(chans.resultChan) IN
       chans' = [chans EXCEPT !.resultChan = Tail(@),
                              !.res = Collect(@, x.path, x.item),
                              !.got[x.path] = @ + 1]
    /\ UNCHANGED <<engineVars, unitVars>>

\* The collection loop ends on the closed, drained resultChan and SyncAll
\* returns the result.
mainReturn ==
    /\ chans.pc = "collect"
    /\ chans.resultChan = <<>> /\ chans.resultClosed
    /\ chans' = [chans EXCEPT !.pc = "done"]
    /\ UNCHANGED <<engineVars, unitVars>>

\* The steps of the goroutine that called SyncAll, of worker w, and of the
\* goroutine waiting for the workers.
mainStep ==
    \/ \E p \in Paths : mainSend(p)
    \/ mainClose
    \/ mainCollect
    \/ mainReturn
workerStep(w) ==
    \/ workerRecv(w)
    \/ workerExit(w)
    \/ \E item \in SyncFileReturns : workerSyncFile(w, item)
    \/ workerSend(w)

NextAll ==
    \/ \E d \in Dirs, n \in WorkerOpts, findErr \in BOOLEAN : allStart(d, n, findErr)
    \/ \E p \in Paths : mainSend(p)
    \/ mainClose
    \/ \E w \in WorkerIds : workerRecv(w)
    \/ \E w \in WorkerIds : workerExit(w)
    \/ \E w \in WorkerIds, item \in SyncFileReturns : workerSyncFile(w, item)
    \/ \E w \in WorkerIds : workerSend(w)
    \/ waiterClose
    \/ mainCollect
    \/ mainReturn

InitAll == InitSync({}) /\ InitLib

\* SyncAll called again and again, without assumption on scheduling.
SpecAll == InitAll /\ [][NextAll]_vars

\* SyncAll with the Go scheduler: a goroutine that can take a step
\* eventually takes one, and every call of syncFile returns (workerSyncFile
\* is a step of its worker).
SpecAllFair ==
    /\ InitAll /\ [][NextAll]_vars
    /\ WF_vars(mainStep)
    /\ \A w \in WorkerIds : WF_vars(workerStep(w))
    /\ WF_vars(waiterClose)

(* --------------------- SyncAll repeated without end --------------------- *)
\* What the writer leaves in a file all of whose lines are well-formed.
LiveContents ==
    UNION {[1..n -> {UserA, AssistB, Snapshot, Blank}] : n \in 0..MaxLines}

\* NewSyncer and SyncAll, not in dry-run mode, as SyncAllWith, any number of
\* times: runs stops counting at MaxRuns.
SyncAllAgain ==
    /\ phase = "idle"
    /\ phase' = "all"
    /\ dryRun' = FALSE
    /\ dbFile' = TRUE
    /\ workers' = NewSyncerWorkers(0)
    /\ busy' = [w \in WorkerIds |-> NoPath]
    /\ taken' = [p \in Paths |-> 0]
    /\ cancelled' = FALSE
    /\ todo' = dir
    /\ result' = EmptyResult("all", Cardinality(dir))
    /\ runs' = IF runs < MaxRuns THEN runs + 1 ELSE runs
    /\ pass' = [q \in Paths |-> NoPass]
    /\ UNCHANGED <<fileVars, storeVars, backend, inflight, okAt, lastFail, proc, libVars>>

NextLive ==
    \/ \E p \in Paths, more \in LiveContents : AppendLines(p, more)
    \/ \E p \in Paths, c \in LiveContents : Rewrite(p, c)
    \/ SyncAllAgain
    \/ \E p \in Paths, statErr \in BOOLEAN : syncFileStat(p, statErr)
    \/ \E p \in Paths, openErr \in BOOLEAN, failAt \in 0..MaxLines :
          syncFileRead(p, openErr, failAt)
    \/ Return

\* SyncAll over one file of well-formed lines that is written a bounded
\* number of times, without assumption on how often SyncAll is called or
\* the backend accepts.
SpecLive == Init /\ [][NextLive]_vars

\* The same with SyncAll called again and again, every call returning, and
\* an environment that does not fail for ever: of the passes over a file,
\* some find stat and open succeeding and the backend accepting every span.
SpecLiveFair ==
    /\ Init /\ [][NextLive]_vars
    /\ WF_vars(SyncAllAgain)
    /\ WF_vars(Return)
    /\ \A p \in Paths : SF_vars(syncFileStat(p, FALSE))
    /\ \A p \in Paths : SF_vars(syncFileRead(p, FALSE, 0))

(* ------------------------------ properties ----------------------------- *)
\* The sum of f over the set S.
RECURSIVE SumOver(_, _)
SumOver(S, f) ==
    IF S = {} THEN 0
    ELSE LET x == CHOOSE y \in S : TRUE IN f[x] + SumOver(S \ {x}, f)

\* Number of SendSpan calls of the current run, over all files.
RunCalls == SumOver(Paths, [p \in Paths |-> pass[p].calls])

\* C1: in non-dry-run mode, over a file that is only appended to, the
\* backend accepts a span for a given (path, content hash) at most once,
\* whatever passes ran and wherever a SendSpan error aborted them.
C1_AtMostOnce ==
    \A p \in Paths :
        appendOnly[p] =>
            \A i, j \in DOMAIN backend[p] :
                backend[p][i].hash = backend[p][j].hash => i = j

\* A second pass over an append-only file that re-entered from offset 0
\* with dedup records in place, suppressed an entry and sent another one.
C1_Witness ==
    /\ appendOnly["A"]
    /\ runs = 2
    /\ pass["A"].done /\ pass["A"].kind = "first"
    /\ pass["A"].preSynced # {}
    /\ pass["A"].spans = 1
    /\ Len(backend["A"]) = 2

\* C2: after a SyncAll that reported no error, over files that do not
\* change, a second SyncAll calls the backend zero times and reports
\* SpansSynced = 0 and FilesUpdated = 0.
C2_Idempotent ==
    (result.kind = "all" /\ result.after /\ clock = result.began) =>
        /\ RunCalls = 0
        /\ result.spans = 0
        /\ result.updated = 0

\* The second SyncAll over an unchanged file with entries has returned.
C2_Witness ==
    /\ result.kind = "all" /\ result.after /\ clock = result.began
    /\ phase = "idle"
    /\ pass["A"].done
    /\ Len(backend["A"]) = 2

\* The entries the parser yields from tokens: blank lines dropped, nothing
\* from the first malformed or oversized line on.
RECURSIVE Entries(_)
Entries(tokens) ==
    IF tokens = <<>> THEN <<>>
    ELSE IF Head(tokens).kind \in {"garbage", "oversize"} THEN <<>>
    ELSE IF Head(tokens).kind = "blank" THEN Entries(Tail(tokens))
    ELSE <<Head(tokens)>> \o Entries(Tail(tokens))

\* The spans obtained by mapping entries, the first of which is entry number
\* lineNum + 1 of its file; entries that map to no span give none.
RECURSIVE MappedSpans(_, _, _)
MappedSpans(entries, path, lineNum) ==
    IF entries = <<>> THEN <<>>
    ELSE LET m == MapEntry(Head(entries), path, lineNum + 1)
             rest == MappedSpans(Tail(entries), path, lineNum + 1)
         IN IF m.res = "span"
            THEN <<[span |-> m.span, hash |-> GenerateMessageHash(Head(entries))]>> \o rest
            ELSE rest

\* sent without the spans whose hash is in seen or occurs earlier in sent.
RECURSIVE Fresh(_, _)
Fresh(sent, seen) ==
    IF sent = <<>> THEN <<>>
    ELSE IF Head(sent).hash \in seen THEN Fresh(Tail(sent), seen)
    ELSE <<Head(sent)>> \o Fresh(Tail(sent), seen \cup {Head(sent).hash})

\* The spans of the entries p's latest pass had to read: from the stored
\* offset and entry count for an incremental pass, from 0 otherwise.
NewSpans(p) ==
    IF pass[p].kind = "incr"
    THEN MappedSpans(Entries(ReadFrom(pass[p].content, pass[p].pre.LastOffset)),
                     p, pass[p].pre.MessageCount)
    ELSE MappedSpans(Entries(pass[p].content), p, 0)

\* The dedup set p's latest pass read the file under.
SeenBefore(p) == IF pass[p].kind = "compact" THEN {} ELSE pass[p].preSynced

\* An incremental pass over a file that grew by appends between two runs
\* has ended without error.
Appended(p) ==
    /\ pass[p].done /\ pass[p].kind = "incr" /\ pass[p].err = "none"
    /\ pass[p].opened /\ ~pass[p].raced /\ appendOnly[p]

\* C3 as stated: the pass emits exactly the spans of the new entries that
\* map to a span, and the saved offset is the file size.
C3_AsStated ==
    \A p \in Paths :
        Appended(p) =>
            /\ pass[p].emitted = NewSpans(p)
            /\ state[p].LastOffset = FileSize(pass[p].content)

\* C3 (amended): the pass emits, in order, exactly the spans of the new
\* entries that map to a span and whose content hash is neither in the
\* file's dedup set nor carried by an earlier new entry; the saved offset is
\* the file size.
C3_AppendCorrect ==
    \A p \in Paths :
        Appended(p) =>
            /\ pass[p].emitted = Fresh(NewSpans(p), pass[p].preSynced)
            /\ state[p].LastOffset = FileSize(pass[p].content)
            /\ state[p].LastOffset = pass[p].size

\* An incremental pass emitted the span of an appended entry.
C3_Witness ==
    /\ Appended("A")
    /\ pass["A"].pre.LastOffset > 0
    /\ Len(pass["A"].emitted) = 1
    /\ pass["A"].emitted[1].span.line = 2

\* The hashes recorded for p in the dedup set.
HashesOf(p) == {r[2] : r \in {x \in synced : x[1] = p}}

\* A compaction resync of p (current size below the stored size) has read
\* the file and ended without error.
Compacted(p) ==
    /\ pass[p].done /\ pass[p].kind = "compact"
    /\ pass[p].opened /\ pass[p].err = "none"

\* C4 as stated: the compaction pass emits every mappable entry of the new
\* content.
C4_AsStated ==
    \A p \in Paths :
        Compacted(p) => pass[p].emitted = MappedSpans(Entries(pass[p].content), p, 0)

\* C4 (amended): when the current size is below the stored size the pass
\* removes the file's dedup records and its state row before reading, reads
\* from offset 0 and emits the first mappable entry of each content hash of
\* the new content (whether or not the hash was recorded before the
\* truncation, later entries of the same hash suppressed); on success the
\* new state row has the new, shorter size.
C4_CompactionRecovery ==
    \A p \in Paths :
        /\ (pass[p].kind = "compact" /\ inflight[p] # None) =>
              /\ state[p] = None
              /\ HashesOf(p) = {}
              /\ inflight[p].offset = 0 /\ inflight[p].lineNum = 0
        /\ Compacted(p) =>
              /\ pass[p].emitted = Fresh(MappedSpans(Entries(pass[p].content), p, 0), {})
              /\ state[p] # None
              /\ state[p].LastSize = pass[p].size
              /\ state[p].LastSize < pass[p].pre.LastSize
              /\ state[p].LastOffset = FileSize(pass[p].content)
              /\ HashesOf(p) = {pass[p].emitted[i].hash : i \in DOMAIN pass[p].emitted}

\* A compaction pass re-emitted an entry whose hash was recorded before the
\* truncation.
C4_Witness ==
    /\ Compacted("A")
    /\ Len(pass["A"].emitted) = 1
    /\ pass["A"].emitted[1].hash \in pass["A"].preSynced

\* C5: a pass that finds size and mtime equal to the stored row returns
\* zero spans and updated = false without opening the file, calls the
\* backend zero times and writes nothing to the store.
C5_UnchangedShortcut ==
    [][\A p \in Paths :
          ( /\ p \in todo /\ p \notin todo'
            /\ pass'[p].err # "stat"
            /\ state[p] # None
            /\ FileSize(files[p]) = state[p].LastSize
            /\ mtime[p] = state[p].LastMtime )
          => /\ state' = state /\ synced' = synced /\ errlog' = errlog
             /\ backend' = backend
             /\ inflight'[p] = None
             /\ pass'[p].done /\ ~pass'[p].opened
             /\ pass'[p].spans = 0 /\ pass'[p].calls = 0 /\ ~pass'[p].updated
             /\ pass'[p].err = "none"
             /\ result'.spans = result.spans
             /\ result'.updated = result.updated
             /\ result'.errors = result.errors]_vars

\* A pass over a non-empty tracked file took the no-change shortcut.
C5_Witness ==
    /\ pass["A"].done /\ pass["A"].kind = "skip"
    /\ state["A"] # None /\ state["A"].LastSize > 0
    /\ FileSize(files["A"]) = state["A"].LastSize

\* The mappable entries of content all have their hash in seen and no line
\* of content is malformed.
AllSeen(content, p, seen) ==
    /\ \A i \in DOMAIN content : content[i].kind # "garbage"
    /\ \A i \in DOMAIN content :
          (content[i].kind = "entry" /\ MapEntry(content[i], p, i).res = "span")
              => GenerateMessageHash(content[i]) \in seen

\* C6: a full pass from offset 0 over a file whose state row is absent
\* while its dedup records are kept sends no span for an entry whose hash is
\* in the dedup set; over the unchanged, fully synced file it sends nothing
\* and ends by saving a state row.
C6_FullResyncSuppressed ==
    \A p \in Paths :
        (pass[p].done /\ pass[p].kind = "first" /\ pass[p].opened) =>
            /\ \A i \in DOMAIN pass[p].emitted :
                  pass[p].emitted[i].hash \notin pass[p].preSynced
            /\ pass[p].err = "none" =>
                  /\ state[p] # None
                  /\ state[p].LastOffset = FileSize(pass[p].content)
            /\ AllSeen(pass[p].content, p, pass[p].preSynced) =>
                  /\ pass[p].err = "none"
                  /\ pass[p].calls = 0
                  /\ state[p] # None

\* A full pass over a file with two synced entries and no state row sent
\* nothing and saved a row.
C6_Witness ==
    /\ pass["A"].done /\ pass["A"].kind = "first" /\ pass["A"].opened
    /\ Cardinality(pass["A"].preSynced) = 2
    /\ AllSeen(pass["A"].content, "A", pass["A"].preSynced)
    /\ Len(pass["A"].content) = 2
    /\ state["A"] # None

\* C7 as stated: after a pass the backend aborted, the state row is the
\* row of before the pass, whichever strategy the pass had chosen.
C7_AsStated ==
    \A p \in Paths :
        (pass[p].done /\ pass[p].err = "send") => state[p] = pass[p].pre

\* C7 (amended): a backend error aborts the pass at that entry; after a
\* first-sight or an incremental pass the state row is the row of before the
\* pass, after a compaction resync the row that existed before the pass is
\* gone (it was deleted before the first emission) and none is saved.
C7_BackendErrorKeepsState ==
    \A p \in Paths :
        (pass[p].done /\ pass[p].err = "send") =>
            /\ pass[p].calls = Len(pass[p].emitted) + 1
            /\ LET exp == Fresh(NewSpans(p), SeenBefore(p))
               IN /\ Len(pass[p].emitted) < Len(exp)
                  /\ pass[p].emitted = SubSeq(exp, 1, Len(pass[p].emitted))
            /\ pass[p].kind \in {"first", "incr"} => state[p] = pass[p].pre
            /\ pass[p].kind = "compact" => (pass[p].pre # None /\ state[p] = None)

\* An incremental pass was aborted by the backend after one accepted span.
C7_Witness ==
    /\ pass["A"].done /\ pass["A"].err = "send"
    /\ pass["A"].kind = "incr"
    /\ Len(pass["A"].emitted) = 1
    /\ state["A"] = pass["A"].pre

\* The session id of the first entry that carries one ("" if none does).
RECURSIVE FirstSession(_)
FirstSession(entries) ==
    IF entries = <<>> THEN ""
    ELSE IF Head(entries).sessionID # "" THEN Head(entries).sessionID
    ELSE FirstSession(Tail(entries))

\* What a pass over q alone yields, from q's own content, row and dedup
\* records: the spans sent (cut short where the pass failed) and the row.
OwnOutcome(q) ==
    LET new == IF pass[q].kind = "incr"
               THEN Entries(ReadFrom(pass[q].content, pass[q].pre.LastOffset))
               ELSE Entries(pass[q].content)
        base == IF pass[q].kind = "incr" THEN pass[q].pre.MessageCount ELSE 0
        exp == Fresh(NewSpans(q), SeenBefore(q))
    IN /\ Len(pass[q].emitted) <= Len(exp)
       /\ pass[q].emitted = SubSeq(exp, 1, Len(pass[q].emitted))
       /\ HashesOf(q) = SeenBefore(q) \cup
                           {pass[q].emitted[i].hash : i \in DOMAIN pass[q].emitted}
       /\ IF pass[q].err = "none"
          THEN /\ pass[q].emitted = exp
               /\ state[q] = SyncState(FileSize(pass[q].content), pass[q].size,
                                       pass[q].mt, FirstSession(new), base + Len(new))
          ELSE state[q] = IF pass[q].kind = "compact" THEN None ELSE pass[q].pre

\* The per-file errors of the run: one for a file whose pass failed, none
\* for any other, and no top-level error.
C8_Errors ==
    result.kind = "all" =>
        /\ result.top = "none"
        /\ \A p \in Paths :
              result.errors[p] = IF pass[p].done /\ pass[p].err # "none" THEN 1 ELSE 0
        /\ \A q \in Paths :
              /\ (pass[q].done /\ pass[q].opened) => OwnOutcome(q)
              /\ (pass[q].done /\ ~pass[q].opened) =>
                    /\ pass[q].emitted = <<>>
                    /\ state[q] = IF pass[q].kind = "compact" THEN None ELSE pass[q].pre

\* A step of the pass over p leaves the rows, dedup records, error log and
\* accepted spans of every other file as they were.
C8_Frame ==
    \A p \in Paths :
        ((p \in todo /\ p \notin todo') \/ (inflight[p] # None /\ inflight'[p] = None))
        => \A q \in Paths \ {p} :
              /\ state'[q] = state[q]
              /\ {x \in synced' : x[1] = q} = {x \in synced : x[1] = q}
              /\ errlog'[q] = errlog[q]
              /\ backend'[q] = backend[q]
              /\ pass'[q] = pass[q]
              /\ inflight'[q] = inflight[q]

\* C8: a stat, open, parse or backend error on one file gives exactly one
\* per-file error in the SyncAll result and no top-level error, and every
\* other file ends with the spans and the state row a pass over it alone
\* yields.
C8_FailureIsolation == [](C8_Errors) /\ [][C8_Frame]_vars

\* SyncAll returned with one error, for A whose pass the backend aborted,
\* while B was synced completely.
C8_Witness ==
    /\ phase = "idle" /\ result.kind = "all"
    /\ pass["A"].done /\ pass["A"].err = "send"
    /\ result.errors = [p \in Paths |-> IF p = "A" THEN 1 ELSE 0]
    /\ pass["B"].done /\ pass["B"].err = "none" /\ Len(pass["B"].emitted) = 2
    /\ state["B"] # None

\* The number of spans the backend accepted for p during the run.
AcceptedInRun == [p \in Paths |-> Len(pass[p].emitted)]

\* C9: SpansSynced of the result of SyncAll is the number of spans the
\* backend accepted during that SyncAll over all files, those of a file
\* whose pass a backend error aborted included.
C9_SpansSynced ==
    (phase = "idle" /\ result.kind = "all") =>
        result.spans = SumOver(dir, AcceptedInRun)

\* C10: FilesUpdated of the result of SyncAll is the number of files for
\* which at least one span was emitted during that SyncAll.
C10_FilesUpdated ==
    (phase = "idle" /\ result.kind = "all") =>
        result.updated = Cardinality({p \in dir : AcceptedInRun[p] >= 1})

\* C11: every step taken while a syncer created with DryRun = true runs
\* (its creation, its SyncAll / SyncFile, every pass, its return) leaves the
\* state rows, the dedup records and the error log as they were and does not
\* create the database file.
C11_DryRunPurity ==
    [][((dryRun' /\ phase' # "idle") \/ (dryRun /\ phase # "idle"))
          => /\ state' = state
             /\ synced' = synced
             /\ errlog' = errlog
             /\ dbFile' = dbFile]_vars

\* A dry-run pass over a file with an entry whose payload does not parse
\* and a user entry sent a span, with no database file in existence.
C11_Witness ==
    /\ dryRun /\ pass["A"].done /\ pass["A"].opened
    /\ pass["A"].content = <<BrokenMsg, UserA>>
    /\ Len(pass["A"].emitted) = 1
    /\ ~dbFile

\* sent begins with the elements of part, in order.
IsPrefix(part, sent) ==
    /\ Len(part) <= Len(sent)
    /\ part = SubSeq(sent, 1, Len(part))

\* C12: a dry-run pass takes the full strategy whatever the store holds,
\* reads the file from offset 0 and sends the span of every entry that maps
\* to one, in order and without consulting the dedup set, up to the entry at
\* which the backend or the parser fails; a pass that ends without error
\* has sent them all.
C12_DryRunSendsAll ==
    \A p \in Paths :
        /\ (dryRun /\ pass[p].run = runs) => pass[p].kind \in {"never", "staterr", "norecord"}
        /\ (dryRun /\ inflight[p] # None) =>
              (inflight[p].offset = 0 /\ inflight[p].lineNum = 0)
        /\ (dryRun /\ pass[p].done /\ pass[p].opened) =>
              LET all == MappedSpans(Entries(pass[p].content), p, 0)
              IN /\ pass[p].offset = 0
                 /\ IsPrefix(pass[p].emitted, all)
                 /\ pass[p].err = "none" => pass[p].emitted = all
                 /\ pass[p].err = "send" => pass[p].calls = Len(pass[p].emitted) + 1

\* A dry-run pass sent both entries of a file that a real run had synced
\* completely before.
C12_Witness ==
    /\ dryRun /\ pass["A"].done /\ pass["A"].opened
    /\ state["A"] # None /\ state["A"].LastOffset = FileSize(files["A"])
    /\ Cardinality(pass["A"].preSynced) = 2
    /\ Len(pass["A"].emitted) = 2

\* The worker goroutines that are inside syncFile.
Running == {w \in WorkerIds : busy[w] # NoPath}

\* C13: at every point of a SyncAll run the number of files whose syncFile
\* is in progress is at most the configured worker count, 4 when the
\* Workers option is <= 0.
C13_WorkerBound ==
    LET bound == IF result.optWorkers <= 0 THEN 4 ELSE result.optWorkers
    IN /\ Cardinality(Running) <= bound
       /\ Cardinality({p \in Paths : inflight[p] # None}) <= bound

\* A syncer with one worker is inside syncFile on one file while the other
\* file waits in the channel.
C13_Witness ==
    /\ phase = "all" /\ result.optWorkers = 1
    /\ Cardinality(Running) = 1
    /\ todo # {}

\* C14: within one SyncAll run no two workers are inside syncFile on the
\* same path, every path is received from the work channel at most once,
\* by one worker, and when SyncAll returns every discovered path has been
\* received exactly once.
C14_OneWorkerPerFile ==
    /\ \A w1, w2 \in Running : busy[w1] = busy[w2] => w1 = w2
    /\ \A p \in Paths :
          /\ taken[p] <= 1
          /\ Cardinality({w \in WorkerIds : busy[w] = p}) <= taken[p]
          /\ (phase = "all" /\ p \in todo) => taken[p] = 0
          /\ (phase = "idle" /\ result.kind = "all") =>
                taken[p] = IF p \in dir THEN 1 ELSE 0

\* Two workers are inside syncFile at the same time, on the two files.
C14_Witness ==
    /\ phase = "all"
    /\ \E w1, w2 \in WorkerIds : busy[w1] = "A" /\ busy[w2] = "B"
    /\ taken = [p \in Paths |-> 1]

\* C15: once the context of a SyncAll is cancelled, a pass emits at most
\* the one entry it has in flight, processes no further entry, and the state
\* row of its file stays what it was before the pass.
C15_Cancellation ==
    \A p \in Paths :
        (pass[p].done /\ pass[p].interrupted) =>
            /\ pass[p].calls <= 1
            /\ Len(pass[p].emitted) <= 1
            /\ state[p] = pass[p].pre

\* part is sent with some elements left out, the others in their order.
RECURSIVE IsSubseq(_, _)
IsSubseq(part, sent) ==
    IF part = <<>> THEN TRUE
    ELSE IF sent = <<>> THEN FALSE
    ELSE IF Head(part) = Head(sent) THEN IsSubseq(Tail(part), Tail(sent))
    ELSE IsSubseq(part, Tail(sent))

\* C16: the spans a pass sends are spans of the entries it read, in the
\* order of those entries (strictly increasing entry numbers); over an
\* append-only file the spans the backend accepted over all passes are spans
\* of the file's entries in file order.
C16_FileOrder ==
    \A p \in Paths :
        /\ (pass[p].done /\ pass[p].opened) =>
              /\ IsSubseq(pass[p].emitted, NewSpans(p))
              /\ \A i, j \in DOMAIN pass[p].emitted :
                    i < j => pass[p].emitted[i].span.line < pass[p].emitted[j].span.line
        /\ appendOnly[p] =>
              /\ IsSubseq(backend[p], MappedSpans(Entries(files[p]), p, 0))
              /\ \A i, j \in DOMAIN backend[p] :
                    i < j => backend[p][i].span.line < backend[p][j].span.line

\* One pass over a file that grew by two appends sent the spans of its two
\* entries, the first entry first.
C16_Witness ==
    /\ appendOnly["A"] /\ clock = 2
    /\ pass["A"].done /\ pass["A"].opened
    /\ Len(pass["A"].emitted) = 2
    /\ pass["A"].emitted[1].span.line = 1
    /\ pass["A"].emitted[2].span.line = 2
    /\ backend["A"] = pass["A"].emitted

\* A pass over p, whose state row existed before it, has read the file and
\* ended without error.
Succeeded(p) ==
    /\ pass[p].done /\ pass[p].opened /\ pass[p].err = "none"
    /\ pass[p].pre # None

C18_OffsetLeSize ==
    \A p \in Paths : state[p] # None => state[p].LastOffset <= state[p].LastSize

\* C19: with two syncer processes on one database and one file, no process
\* sends an entry to the backend while the dedup record of that entry is
\* committed, under every interleaving of their IsSynced, SendSpan and
\* RecordSyncedMessage steps.
C19_NoSendAfterCommit ==
    [][\A i \in Procs :
          (proc[i].pc = "send" /\ proc'[i].pc = "record")
          => ~IsSynced(synced, RaceFile, GenerateMessageHash(proc[i].entry))]_vars

\* C20: a pass whose state save fails returns an error with updated = true
\* and leaves the row as it was (absent after a compaction resync), with a
\* dedup record for every span it sent; the next pass over the file, unless
\* the file shrank in between, starts at the offset the failed pass started
\* at, re-reads the entries that pass read if the file was only appended to,
\* and sends none of the entries the failed pass sent.
C20_SaveFailure ==
    \A p \in Paths :
        /\ (pass[p].done /\ pass[p].err = "save") =>
              /\ pass[p].updated
              /\ pass[p].emitted = Fresh(NewSpans(p), SeenBefore(p))
              /\ state[p] = IF pass[p].kind = "compact" THEN None ELSE pass[p].pre
              /\ \A i \in DOMAIN pass[p].emitted : pass[p].emitted[i].hash \in HashesOf(p)
              /\ lastFail[p] # None
              /\ result.kind = "all" => result.errors[p] = 1
        /\ (pass[p].done /\ pass[p].prevFail # None /\ pass[p].kind # "staterr") =>
              /\ pass[p].kind \in {"first", "incr", "compact"}
              /\ (pass[p].opened /\ pass[p].kind # "compact") =>
                    /\ pass[p].offset = pass[p].prevFail.offset
                    /\ \A i \in DOMAIN pass[p].emitted :
                          pass[p].emitted[i].hash \notin pass[p].prevFail.hashes
                    /\ IsPrefix(pass[p].prevFail.content, pass[p].content) =>
                          IsPrefix(ReadFrom(pass[p].prevFail.content, pass[p].offset),
                                   ReadFrom(pass[p].content, pass[p].offset))

\* After a pass that sent two spans and failed to save its row, the next
\* pass over the unchanged file read both entries again, sent nothing and
\* saved the row.
C20_Witness ==
    /\ pass["A"].done /\ pass["A"].opened /\ pass["A"].err = "none"
    /\ pass["A"].prevFail # None
    /\ Cardinality(pass["A"].prevFail.hashes) = 2
    /\ pass["A"].content = pass["A"].prevFail.content
    /\ pass["A"].calls = 0
    /\ state["A"] # None

\* Number of entries the mapper fails on, the first of entries being entry
\* number lineNum + 1 of its file.
RECURSIVE MapFailures(_, _, _)
MapFailures(entries, path, lineNum) ==
    IF entries = <<>> THEN 0
    ELSE (IF MapEntry(Head(entries), path, lineNum + 1).res = "error" THEN 1 ELSE 0)
         + MapFailures(Tail(entries), path, lineNum + 1)

\* The worker holding p completes its pass with the file opened.
ReadsFile(p) == inflight[p] # None /\ inflight'[p] = None /\ pass'[p].opened

\* C21: a mapping failure on one entry does not abort the pass: every
\* failure is logged in the error log when a store is open (not in dry-run
\* mode), the failed entry gets no dedup record, the entries after it are
\* still mapped and sent in order, and a pass that reaches end of stream
\* saves a row whose entry count includes the failed entries.
C21_MappingFailureContinues ==
    [][\A p \in Paths :
          (ReadsFile(p) /\ pass'[p].err \in {"none", "parse"}) =>
              LET st == inflight[p]
                  ents == Entries(ReadFrom(files[p], st.offset))
                  seen == IF shouldRecord(dryRun) THEN HashesOf(p) ELSE {}
                  all == MappedSpans(ents, p, st.lineNum)
              IN /\ errlog'[p] = errlog[p]
                        + (IF shouldRecord(dryRun) THEN MapFailures(ents, p, st.lineNum) ELSE 0)
                 /\ \A i \in DOMAIN ents :
                       MapEntry(ents[i], p, st.lineNum + i).res = "error" =>
                           ~IsSynced(synced', p, GenerateMessageHash(ents[i]))
                 /\ pass'[p].emitted = (IF shouldRecord(dryRun) THEN Fresh(all, seen) ELSE all)
                 /\ (pass'[p].err = "none" /\ shouldRecord(dryRun)) =>
                       /\ state'[p] # None
                       /\ state'[p].MessageCount = st.lineNum + Len(ents)]_vars

\* A pass over a file whose first entry fails mapping logged the error, sent
\* the span of the second entry and saved a row counting both.
C21_Witness ==
    /\ pass["A"].done /\ pass["A"].err = "none" /\ ~pass["A"].raced
    /\ pass["A"].content = <<BrokenMsg, UserA>>
    /\ Len(pass["A"].emitted) = 1
    /\ pass["A"].emitted[1].span.line = 2
    /\ errlog["A"] = 1
    /\ state["A"] # None /\ state["A"].MessageCount = 2
    /\ ~IsSynced(synced, "A", GenerateMessageHash(BrokenMsg))

\* The tokens hold a line the parser cannot read.
HasBadLine(tokens) == \E i \in DOMAIN tokens : tokens[i].kind \in {"garbage", "oversize"}

\* C22: a malformed JSON line or a line over the scanner's bound aborts the
\* pass of its file with a per-file error: unless a backend error aborted
\* the pass earlier, only the entries before that line are processed, the
\* state row is not written, and the dedup records of the spans sent before
\* the line are kept.
C22_ParseErrorAborts ==
    [][\A p \in Paths :
          LET st == inflight[p]
              tokens == ReadFrom(files[p], st.offset)
              before == Entries(tokens)
          IN (ReadsFile(p) /\ HasBadLine(tokens)) =>
                /\ pass'[p].err \in {"parse", "scan", "send"}
                /\ result'.errors[p] = result.errors[p] + 1
                /\ result'.spans = result.spans /\ result'.updated = result.updated
                /\ state'[p] = state[p]
                /\ pass'[p].err # "send" =>
                      /\ pass'[p].emitted
                            = Fresh(MappedSpans(before, p, st.lineNum), HashesOf(p))
                      /\ backend'[p] = backend[p] \o pass'[p].emitted
                /\ {r \in synced' : r[1] = p}
                      = {r \in synced : r[1] = p}
                          \cup {<<p, pass'[p].emitted[i].hash>> : i \in DOMAIN pass'[p].emitted}]_vars

\* A pass sent the span of the entry before an oversized line, stopped at
\* that line and left the file without a state row, the dedup record kept.
C22_Witness ==
    /\ pass["A"].done /\ pass["A"].err = "scan" /\ ~pass["A"].raced
    /\ pass["A"].content = <<UserA, Oversize>>
    /\ Len(pass["A"].emitted) = 1
    /\ state["A"] = None
    /\ IsSynced(synced, "A", GenerateMessageHash(UserA))
    /\ result.errors["A"] = 1

\* The worker taking p finds, by a stat that succeeds, the file shorter
\* than the size of its state row.
DetectsShrink(p) ==
    /\ p \in todo /\ p \notin todo'
    /\ pass'[p].err # "stat"
    /\ state[p] # None
    /\ FileSize(files[p]) < state[p].LastSize

\* C29: compaction ordering.  The step of a pass that detects current size <
\* stored size clears the file's dedup set and deletes its state row and
\* sends nothing; when that pass then hands spans of the file to the
\* backend, the dedup set is already empty and the row already gone.
C29_CompactionOrdering ==
    [][\A p \in Paths :
          /\ DetectsShrink(p) =>
                /\ {r \in synced' : r[1] = p} = {}
                /\ state'[p] = None
                /\ backend' = backend
                /\ pass'[p].kind = "compact" /\ ~pass'[p].done
          /\ (pass[p].kind = "compact" /\ backend'[p] # backend[p]) =>
                /\ ~pass[p].done /\ pass'[p].done
                /\ {r \in synced : r[1] = p} = {}
                /\ state[p] = None]_vars

\* A compaction pass over a file that had dedup records and a row sent two
\* spans.
C29_Witness ==
    /\ pass["A"].done /\ pass["A"].kind = "compact" /\ pass["A"].opened
    /\ pass["A"].pre # None /\ pass["A"].preSynced # {}
    /\ Len(pass["A"].emitted) = 2
    /\ Len(backend["A"]) >= 3

\* The worker taking p finds, by a stat that succeeds, a tracked file that
\* did not shrink and whose (size, mtime) differ from the stored pair.
DetectsChange(p) ==
    /\ p \in todo /\ p \notin todo'
    /\ pass'[p].err # "stat"
    /\ state[p] # None
    /\ FileSize(files[p]) >= state[p].LastSize
    /\ <<FileSize(files[p]), mtime[p]>> # <<state[p].LastSize, state[p].LastMtime>>

\* C30: incremental transition.  A pass that finds a tracked file (offset N,
\* size S, mtime T) with size >= S and (size, mtime) # (S, T) reads from
\* offset N with the stored entry count and writes nothing before it reads;
\* if it succeeds the new row has offset >= N and the size and mtime the
\* stat of that pass observed, whatever was written to the file after the
\* stat.  When only the mtime changed (size = S, the stored offset at or
\* past the end of the file, no write during the pass) the pass sends
\* nothing and the offset and the entry count of the row stay as they were.
C30_IncrementalTransition ==
    [][\A p \in Paths :
          /\ DetectsChange(p) =>
                /\ pass'[p].kind = "incr" /\ ~pass'[p].done
                /\ inflight'[p] # None
                /\ inflight'[p].offset = state[p].LastOffset
                /\ inflight'[p].lineNum = state[p].MessageCount
                /\ pass'[p].size = FileSize(files[p]) /\ pass'[p].mt = mtime[p]
                /\ state' = state /\ synced' = synced /\ backend' = backend
          /\ (ReadsFile(p) /\ pass[p].kind = "incr") =>
                LET row == state[p] IN
                /\ pass'[p].err = "none" =>
                      /\ state'[p] # None
                      /\ state'[p].LastOffset >= row.LastOffset
                      /\ state'[p].LastSize = pass[p].size
                      /\ state'[p].LastMtime = pass[p].mt
                /\ ( /\ pass[p].size = row.LastSize
                     /\ row.LastOffset >= pass[p].size
                     /\ ~pass[p].raced ) =>
                      /\ pass'[p].err = "none"
                      /\ pass'[p].calls = 0 /\ pass'[p].spans = 0
                      /\ backend' = backend
                      /\ state'[p].LastOffset = row.LastOffset
                      /\ state'[p].MessageCount = row.MessageCount
                      /\ state'[p].LastMtime # row.LastMtime]_vars

\* An incremental pass over a file that was appended to between its stat
\* and its read saved a larger offset with the size of the stat, which is
\* not the size of the file it read.
C30_Witness ==
    /\ pass["A"].done /\ pass["A"].kind = "incr" /\ pass["A"].err = "none"
    /\ pass["A"].raced
    /\ state["A"].LastOffset > pass["A"].pre.LastOffset
    /\ state["A"].LastSize = pass["A"].size
    /\ FileSize(pass["A"].content) > pass["A"].size

\* An incremental pass over a file of two entries of which only the mtime
\* changed has sent nothing and kept offset and entry count.
C30_TouchedOnly ==
    /\ pass["A"].done /\ pass["A"].kind = "incr" /\ pass["A"].err = "none"
    /\ ~pass["A"].raced
    /\ pass["A"].pre.LastSize = pass["A"].size /\ pass["A"].size > 0
    /\ pass["A"].calls = 0
    /\ state["A"].LastOffset = pass["A"].pre.LastOffset
    /\ state["A"].MessageCount = 2
    /\ state["A"].LastMtime # pass["A"].pre.LastMtime

\* The fields of a span other than its start and end time.
Timeless(span) == [f \in DOMAIN span \ {"start", "end"} |-> span[f]]

\* The entry was mapped twice.
MappedTwice == Len(mapped.calls) = 2

RECURSIVE StateAfter(_, _)
StateAfter(lg, p) ==
    IF lg = <<>> THEN None
    ELSE LET op == lg[Len(lg)]
             before == SubSeq(lg, 1, Len(lg) - 1)
         IN IF op[1] = "SaveState" /\ op[2] = p THEN op[3]
            ELSE IF op[1] = "DeleteState" /\ op[2] = p THEN None
            ELSE StateAfter(before, p)

\* C24: the state table behaves as a map keyed by file path.  GetState
\* returns absent for a path never saved or deleted since, else the fields of
\* the latest SaveState for that path (an empty trace id comes back empty);
\* there is at most one row per path; calls on one path leave what GetState
\* returns for every other path as it was.
C24_StateTableIsMap ==
    /\ \A p \in Paths :
          /\ SelectState(sync_state, p) = StateAfter(log, p)
          /\ Cardinality({x \in sync_state : x.file_path = p}) <= 1
    /\ ret.op = "GetState" => ret.val = StateAfter(log, ret.path)

\* GetState returned the state with an empty trace id that replaced an
\* earlier state of the same path, another path having been saved in between.
C24_Witness ==
    /\ ret.op = "GetState"
    /\ Len(log) = 3
    /\ log[1] = <<"SaveState", ret.path, SyncState(3, 3, 1, "S1", 1)>>
    /\ log[2][1] = "SaveState" /\ log[2][2] # ret.path
    /\ log[3] = <<"SaveState", ret.path, SyncState(7, 7, 2, "", 2)>>
    /\ ret.val = SyncState(7, 7, 2, "", 2)
    /\ Cardinality(sync_state) = 2

\* Whether RecordSyncedMessage(p, h, _) was called in lg after the last
\* ClearFileMessages(p).
RECURSIVE RecordedSince(_, _, _)
RecordedSince(lg, p, h) ==
    IF lg = <<>> THEN FALSE
    ELSE LET op == lg[Len(lg)]
             before == SubSeq(lg, 1, Len(lg) - 1)
         IN IF op[1] = "RecordSyncedMessage" /\ op[2] = p /\ op[3] = h THEN TRUE
            ELSE IF op[1] = "ClearFileMessages" /\ op[2] = p THEN FALSE
            ELSE RecordedSince(before, p, h)

\* C25: the dedup table behaves as a set of (path, hash) pairs.  IsSynced(p,
\* h) is true exactly when RecordSyncedMessage(p, h, _) was called since the
\* last ClearFileMessages(p); a pair has at most one row; ClearFileMessages(p)
\* removes the rows of p and no other row, and leaves the state table alone.
C25_DedupTableIsSet ==
    /\ [](/\ \A p \in Paths, h \in DBHashes :
                /\ (CountMessages(synced_messages, p, h) > 0) = RecordedSince(log, p, h)
                /\ CountMessages(synced_messages, p, h) <= 1
          /\ ret.op = "IsSynced" => ret.val = RecordedSince(log, ret.path, ret.hash))
    /\ [][\A p \in Paths :
            log' = Append(log, <<"ClearFileMessages", p>>) =>
                /\ synced_messages' = {x \in synced_messages : x.file_path # p}
                /\ sync_state' = sync_state]_vars

\* After a pair was recorded for each of two paths and the pairs of one path
\* were cleared, IsSynced returned false for the cleared pair while the other
\* path keeps its row.
C25_Witness ==
    /\ ret.op = "IsSynced" /\ ret.val = FALSE
    /\ Len(log) = 3
    /\ log[1] = <<"RecordSyncedMessage", ret.path, ret.hash, "s1">>
    /\ log[2][1] = "RecordSyncedMessage" /\ log[2][2] # ret.path
    /\ log[3] = <<"ClearFileMessages", ret.path>>
    /\ Cardinality(synced_messages) = 1

\* The (path, hash) pairs recorded and not cleared since.
LivePairs(lg) == {x \in Paths \X DBHashes : RecordedSince(lg, x[1], x[2])}

\* The sum of the entry counts of the states a map holds after lg.
RECURSIVE SumCounts(_, _)
SumCounts(lg, ps) ==
    IF ps = {} THEN 0
    ELSE LET p == CHOOSE q \in ps : TRUE
         IN (IF StateAfter(lg, p) = None THEN 0 ELSE StateAfter(lg, p).MessageCount)
            + SumCounts(lg, ps \ {p})

\* C26: after any sequence of store calls, Stats returns TrackedFiles = the
\* number of paths with a state, SyncedMessages = the number of recorded
\* pairs, TotalMessages = the sum of the entry counts of the states (0
\* without states), which is not the number of dedup rows.
C26_Stats ==
    ret.op = "Stats" =>
        /\ ret.val.TrackedFiles = Cardinality({p \in Paths : StateAfter(log, p) # None})
        /\ ret.val.SyncedMessages = Cardinality(LivePairs(log))
        /\ ret.val.TotalMessages = SumCounts(log, Paths)
        /\ sync_state = {} => ret.val.TotalMessages = 0

\* Stats on two tracked files with 1 and 2 entries and one dedup row
\* returned a total of 3.
C26_Witness ==
    /\ ret.op = "Stats"
    /\ ret.val = [TrackedFiles |-> 2, SyncedMessages |-> 1, TotalMessages |-> 3]
    /\ Len(log) = 3

\* Every goroutine has returned from SaveState.
AllReturned == \A g \in Goroutines : gor[g].pc = "done"

\* C27: concurrent SaveState calls on distinct paths all succeed and none is
\* lost.  At most one goroutine is inside the statement at a time; once all
\* have returned, none returned an error and the table holds exactly one row
\* per path, with the values its caller saved.
C27_ConcurrentSaves ==
    /\ Cardinality({g \in Goroutines : gor[g].pc \in {"locked", "writing", "unlock"}}) <= 1
    /\ AllReturned =>
          /\ \A g \in Goroutines :
                /\ gor[g].err = "none"
                /\ SelectState(sync_state, GoroutinePath(g)) = gor[g].state
                /\ Cardinality({x \in sync_state : x.file_path = GoroutinePath(g)}) = 1
          /\ Cardinality(sync_state) = NumGoroutines

\* All goroutines returned, the last one started having written first and
\* the first one last.
C27_Witness ==
    /\ AllReturned
    /\ gor[NumGoroutines].nth = 1
    /\ gor[1].nth = NumGoroutines
    /\ Cardinality(sync_state) = NumGoroutines

\* C28: Search with Limit = L > 0 returns at most L results under every
\* interleaving of its workers; the results returned are of pairwise
\* distinct files, each of which matched the query.
C28_SearchLimit ==
    (srch.pc = "returned" /\ srch.limit > 0) =>
        /\ Len(srch.ret) <= srch.limit
        /\ \A i, j \in DOMAIN srch.ret : srch.ret[i].path = srch.ret[j].path => i = j
        /\ \A i \in DOMAIN srch.ret :
              /\ srch.ret[i].path \in srch.matching
              /\ srch.ret[i].MatchCount > 0

\* Search with Limit = 2 over three matching files returned two results, a
\* worker having been stopped by the limit with the result of the third.
C28_Witness ==
    /\ srch.pc = "returned"
    /\ srch.limit = 2
    /\ Cardinality(srch.matching) = 3
    /\ Len(srch.ret) = 2
    /\ \E i \in DOMAIN srch.w : srch.w[i].result # None /\ srch.w[i].result.path = "f1"
    /\ srch.ret[1].path = "f3"

\* The lines of content that lie wholly before byte offset off.
RECURSIVE LinesBefore(_, _)
LinesBefore(content, off) ==
    IF content = <<>> THEN <<>>
    ELSE IF LineBytes(Head(content)) > off THEN <<>>
    ELSE <<Head(content)>> \o LinesBefore(Tail(content), off - LineBytes(Head(content)))

\* The line l of file p has been dealt with: it is blank, or an entry that
\* maps to no span, or one whose mapping failure is in the error log, or one
\* whose hash has a dedup record and was accepted by the backend (for this
\* line or for an earlier one of the same hash).
Handled(p, l) ==
    /\ ParserNextErr(l) = "none"
    /\ l.kind = "entry" =>
          LET m == MapEntry(l, p, 1) IN
          /\ m.res = "error" => errlog[p] > 0
          /\ m.res = "span" =>
                /\ IsSynced(synced, p, GenerateMessageHash(l))
                /\ \E i \in DOMAIN backend[p] : backend[p][i].hash = GenerateMessageHash(l)

\* C31: cursor soundness.  For a file that has only been appended to, also
\* between the stat and the read of a pass, every line that lies wholly
\* before the offset of its state row has been handled, and the offset is at
\* a line boundary within the file.
C31_CursorSoundness ==
    \A p \in Paths :
        (appendOnly[p] /\ state[p] # None) =>
            LET done == LinesBefore(files[p], state[p].LastOffset) IN
            /\ state[p].LastOffset <= FileSize(files[p])
            /\ SeqBytes(done) = state[p].LastOffset
            /\ \A i \in DOMAIN done : Handled(p, done[i])

\* A pass during which the file was appended to saved an offset past the
\* size of its stat, the appended entry accepted by the backend.
C31_Witness ==
    /\ appendOnly["A"] /\ state["A"] # None
    /\ pass["A"].done /\ pass["A"].raced /\ pass["A"].err = "none"
    /\ state["A"].LastOffset > state["A"].LastSize
    /\ state["A"].LastOffset = FileSize(files["A"])
    /\ Len(files["A"]) = 2
    /\ Len(backend["A"]) = 2

\* The non-empty lines of content, in order.
NonEmpty(content) == SelectSeq(content, LAMBDA l : l.kind # "blank")

\* C32: line numbering across passes.  (a) In an incremental pass the i-th
\* entry read is mapped with line number stored entry count + i.  (b) For a
\* file that has only been appended to, every span ever accepted carries as
\* line number the position, among the non-empty lines of the file, of the
\* entry it was mapped from, whatever passes the reads were split into.
\* (c) The entry count of a state row of such a file is the number of
\* non-empty lines before the offset of the row.
C32_LineNumbers ==
    \A p \in Paths :
        /\ (pass[p].done /\ pass[p].opened /\ pass[p].kind = "incr") =>
              LET read == NonEmpty(ReadFrom(pass[p].content, pass[p].pre.LastOffset)) IN
              \A k \in DOMAIN pass[p].emitted :
                  LET i == pass[p].emitted[k].span.line - pass[p].pre.MessageCount IN
                  /\ i \in DOMAIN read
                  /\ pass[p].emitted[k].span = MapEntry(read[i], p, pass[p].pre.MessageCount + i).span
        /\ appendOnly[p] =>
              /\ \A k \in DOMAIN backend[p] :
                    LET j == backend[p][k].span.line IN
                    /\ j \in DOMAIN NonEmpty(files[p])
                    /\ backend[p][k].span = MapEntry(NonEmpty(files[p])[j], p, j).span
                    /\ backend[p][k].hash = GenerateMessageHash(NonEmpty(files[p])[j])
              /\ state[p] # None =>
                    state[p].MessageCount =
                        Len(NonEmpty(LinesBefore(files[p], state[p].LastOffset)))

\* An incremental pass over an append-only file whose first line maps to no
\* span sent the appended entry as line 2 and saved the entry count 2.
C32_Witness ==
    /\ appendOnly["A"] /\ Succeeded("A") /\ pass["A"].kind = "incr"
    /\ files["A"] = <<Snapshot, UserA>>
    /\ pass["A"].pre.MessageCount = 1
    /\ Len(pass["A"].emitted) = 1 /\ pass["A"].emitted[1].span.line = 2
    /\ state["A"].MessageCount = 2

\* C33: after every pass that read the file and ended without error, the
\* trace id of the state row is the session id of the first entry of the
\* file that carries one, and is empty only if no entry of the file does.
C33_TraceId ==
    \A p \in Paths :
        (pass[p].done /\ pass[p].opened /\ pass[p].err = "none" /\ state[p] # None) =>
            state[p].TraceID = FirstSession(Entries(pass[p].content))

\* The row of a file holding one user entry of session S1 has an empty trace
\* id after a successful incremental pass that found only the modification
\* time changed.
C33_TraceIdLost ==
    /\ appendOnly["A"] /\ files["A"] = <<UserA>>
    /\ Succeeded("A") /\ pass["A"].kind = "incr"
    /\ pass["A"].pre.TraceID = "S1"
    /\ state["A"].TraceID = ""

Cursor(p) == IF state[p] = None THEN 0 ELSE state[p].LastOffset

\* A malformed JSON line of p starts at or after the cursor.
Blocked(p) ==
    \E i \in DOMAIN files[p] :
        /\ files[p][i].kind = "garbage"
        /\ SeqBytes(SubSeq(files[p], 1, i - 1)) >= Cursor(p)

\* The first token of tokens the parser cannot read (a blank line if it can
\* read them all).
RECURSIVE FirstBadLine(_)
FirstBadLine(tokens) ==
    IF tokens = <<>> THEN Blank
    ELSE IF ParserNextErr(Head(tokens)) # "none" THEN Head(tokens)
    ELSE FirstBadLine(Tail(tokens))

\* C37: a malformed line blocks its file for good.  While the file is only
\* appended to, a malformed line at or after the cursor stays at or after
\* the cursor whatever step is taken: no step advances the row (a detected
\* shrink may delete it, which moves the cursor back to 0).  Every pass
\* started in that condition reads the file (it is never skipped as
\* unchanged), reads from the cursor, ends in an error (the parse error
\* unless a SendSpan error or an oversized line came first), leaves the row
\* as it is, and sends only spans of entries in front of the malformed line.
C37_MalformedLineBlocks ==
    /\ [](\A p \in Paths : inflight[p] # None => inflight[p].offset = Cursor(p))
    /\ [][\A p \in Paths :
            (Blocked(p) /\ IsPrefix(files[p], files'[p])) =>
                /\ Blocked(p)'
                /\ state'[p] \in {state[p], None}
                /\ (p \in todo /\ p \notin todo') => pass'[p].kind # "skip"
                /\ ReadsFile(p) =>
                      LET tokens == ReadFrom(files[p], Cursor(p)) IN
                      /\ state'[p] = state[p]
                      /\ pass'[p].err \in {"send", ParserNextErr(FirstBadLine(tokens))}
                      /\ result'.errors[p] = result.errors[p] + 1
                      /\ backend'[p] = backend[p] \o pass'[p].emitted
                      /\ \A k \in DOMAIN pass'[p].emitted :
                            \E j \in DOMAIN MappedSpans(Entries(tokens), p, inflight[p].lineNum) :
                                pass'[p].emitted[k].span
                                    = MappedSpans(Entries(tokens), p, inflight[p].lineNum)[j].span]_vars

\* The second run over a file whose malformed first line got an entry
\* appended behind it has failed on that line again: nothing was sent and
\* there is no row.
C37_Witness ==
    /\ runs = 2 /\ clock = 2 /\ appendOnly["A"]
    /\ files["A"] = <<Garbage, UserA>>
    /\ pass["A"].done /\ pass["A"].opened /\ pass["A"].err = "parse"
    /\ backend["A"] = <<>>
    /\ state["A"] = None
    /\ result.errors["A"] = 1

(* ------------------- entries equal in the hashed fields ------------------ *)
\* UserA as a reply to another entry: it differs from UserA in the parent
\* uuid only.
UserAChild == [UserA EXCEPT !.parentUUID = "p"]

\* Two summary entries without uuid, session id and timestamp: they differ
\* in the summary text only.
SummaryX == [Line("entry", "summary", "", "", "") EXCEPT !.summary = "x"]
SummaryY == [Line("entry", "summary", "", "", "") EXCEPT !.summary = "y"]

\* What the writer leaves in a file whose entries may agree in every hashed
\* field.
HashContents ==
    UNION {[1..n -> {UserA, UserAChild, SummaryX, SummaryY, AssistB}] : n \in 0..MaxLines}

\* SyncAll, not in dry-run mode, over one file that is appended to or
\* rewritten with such entries, its row removed now and then.
NextHash ==
    \/ \E p \in Paths, more \in HashContents : AppendLines(p, more)
    \/ \E p \in Paths, c \in HashContents : Rewrite(p, c)
    \/ \E p \in Paths : ForgetState(p)
    \/ SyncAll(FALSE)
    \/ \E p \in Paths, statErr \in BOOLEAN : syncFileStat(p, statErr)
    \/ \E p \in Paths, openErr \in BOOLEAN, failAt \in 0..MaxLines :
          syncFileRead(p, openErr, failAt)
    \/ Return

SpecHash == Init /\ [][NextHash]_vars

\* The fields of an entry the dedup hash is computed over.
HashedFields(e) == <<e.type, e.sessionID, e.timestamp, e.uuid, e.message>>

\* C38: outside dry-run mode, of the entries of a file that agree in type,
\* session id, timestamp, uuid and payload at most one is sent until a
\* compaction clears the dedup set, whatever their lines and whatever other
\* fields (parent uuid, summary text) they differ in.  A pass sends an entry
\* only if no dedup record of the file holds its hashed fields, sends no two
\* entries with the same hashed fields, and leaves a dedup record holding
\* the hashed fields of every entry it sent; a dedup record of the file is
\* removed by no step but the one that detects a shrink.
C38_OnePerHash ==
    [][\A p \in Paths :
          /\ ~DetectsShrink(p) => HashesOf(p) \subseteq HashesOf(p)'
          /\ ReadsFile(p) =>
                LET read == NonEmpty(ReadFrom(files[p], inflight[p].offset))
                    new == pass'[p].emitted
                    from(k) == read[new[k].span.line - inflight[p].lineNum]
                IN /\ backend'[p] = backend[p] \o new
                   /\ \A k \in DOMAIN new :
                         /\ new[k].span.line - inflight[p].lineNum \in DOMAIN read
                         /\ HashedFields(from(k)) \notin HashesOf(p)
                         /\ HashedFields(from(k)) \in HashesOf(p)'
                         /\ \A k2 \in DOMAIN new :
                               k2 # k => HashedFields(from(k2)) # HashedFields(from(k))]_vars

\* A pass over a file of two summary entries with different texts has sent
\* the first only and counted both.
C38_Witness ==
    /\ files["A"] = <<SummaryX, SummaryY>>
    /\ pass["A"].done /\ pass["A"].opened /\ pass["A"].err = "none"
    /\ pass["A"].content = <<SummaryX, SummaryY>>
    /\ Len(backend["A"]) = 1 /\ backend["A"][1].span.line = 1
    /\ state["A"] # None /\ state["A"].MessageCount = 2
    /\ GenerateMessageHash(SummaryX) = GenerateMessageHash(SummaryY)

\* The processes that were killed after SendSpan returned for an entry of
\* hash h and before its dedup record was written.
KilledUnrecorded(h) ==
    {i \in Procs : /\ proc[i].pc = "killed" /\ proc[i].killedAt = "record"
                   /\ GenerateMessageHash(proc[i].entry) = h}

\* The number of spans of hash h the backend accepted for RaceFile.
TimesSent(h) ==
    Cardinality({k \in DOMAIN backend[RaceFile] : backend[RaceFile][k].hash = h})

\* C34: crash recovery over an append-only file.  However the passes were
\* killed and restarted, an entry is accepted once, plus once for every
\* process killed between the SendSpan of that entry and its dedup record:
\* an entry whose dedup record was written before a kill is not sent again,
\* and a kill makes at most one entry be sent twice.
C34_CrashRecovery ==
    /\ \A k \in DOMAIN backend[RaceFile] :
          TimesSent(backend[RaceFile][k].hash)
              <= 1 + Cardinality(KilledUnrecorded(backend[RaceFile][k].hash))
    /\ Len(backend[RaceFile])
          <= Cardinality({backend[RaceFile][k].hash : k \in DOMAIN backend[RaceFile]})
               + Cardinality({i \in Procs : proc[i].pc = "killed" /\ proc[i].killedAt = "record"})

\* The first process was killed after the dedup record of the first entry,
\* the second between the SendSpan of the second entry and its record; the
\* third has finished its pass: the first entry was accepted once, the
\* second twice.
C34_Witness ==
    /\ files[RaceFile] = <<UserA, AssistB>>
    /\ proc[1].pc = "killed" /\ proc[1].killedAt = "next" /\ proc[1].spans = 1
    /\ proc[2].pc = "killed" /\ proc[2].killedAt = "record"
    /\ proc[2].entry = AssistB
    /\ proc[3].pc = "done" /\ proc[3].err = "none"
    /\ TimesSent(GenerateMessageHash(UserA)) = 1
    /\ TimesSent(GenerateMessageHash(AssistB)) = 2
    /\ state[RaceFile] # None /\ state[RaceFile].MessageCount = 2

\* The number of per-file errors in the result of the SyncAll under way.
AllErrors == SumOver(Paths, chans.res.errors)

\* C36: SyncAll returns, whatever the number of files found (none included)
\* and the number of workers, provided every call of syncFile returns; when
\* it returns no goroutine is left blocked, both channels are closed and
\* empty, every file found has produced exactly one work item, so that
\* FilesScanned = len(Errors) + the number of files processed without
\* error, and FilesUpdated <= FilesScanned.
C36_SyncAllReturns ==
    /\ (chans.pc \in {"send", "collect"}) ~> (chans.pc = "done")
    /\ [](chans.pc = "done" =>
            /\ \A w \in WorkerIds : chans.wk[w].pc \in {"none", "exit"}
            /\ chans.waiter = "exit"
            /\ chans.fileChan = <<>> /\ chans.fileClosed
            /\ chans.resultChan = <<>> /\ chans.resultClosed
            /\ \A p \in Paths : chans.got[p] = IF p \in chans.files THEN 1 ELSE 0
            /\ chans.res.scanned = Cardinality(chans.files)
            /\ chans.res.scanned
                  = AllErrors + Cardinality({p \in chans.files : chans.res.errors[p] = 0})
            /\ chans.res.updated <= chans.res.scanned - AllErrors
            /\ chans.res.updated <= chans.res.scanned)

\* SyncAll with one worker over two files has returned, one file processed
\* with an error and one without.
C36_Witness ==
    /\ chans.pc = "done" /\ chans.workers = 1
    /\ chans.files = Paths
    /\ chans.res.errors["A"] = 1 /\ chans.res.errors["B"] = 0
    /\ chans.res.updated = 1 /\ chans.res.scanned = 2

\* SyncAll over an empty directory has returned.
C36_WitnessEmpty ==
    /\ chans.pc = "done" /\ chans.files = {} /\ chans.workers = DefaultWorkers
    /\ chans.res.scanned = 0

\* The number of spans of hash h the backend accepted for p.
TimesAccepted(p, h) ==
    Cardinality({k \in DOMAIN backend[p] : backend[p][k].hash = h})

\* The row of p has its offset at the end of the file, and every entry of
\* the file that maps to a span and whose hash no other entry of the file
\* has was accepted by the backend exactly once.
Settled(p) ==
    /\ state[p] # None
    /\ state[p].LastOffset = FileSize(files[p])
    /\ LET es == Entries(files[p]) IN
       \A i \in DOMAIN es :
           (/\ MapEntry(es[i], p, i).res = "span"
            /\ \A j \in DOMAIN es :
                  GenerateMessageHash(es[j]) = GenerateMessageHash(es[i]) => j = i)
           => TimesAccepted(p, GenerateMessageHash(es[i])) = 1

\* C35 as stated: every file of well-formed lines that stops changing is
\* eventually settled for good, whatever was written to it before, and once
\* it is settled no pass emits anything for it while it does not change.
C35_AsStated ==
    /\ \A p \in {"A"} : <>[]Settled(p)
    /\ [][\A p \in Paths :
            (Settled(p) /\ files'[p] = files[p]) =>
                (backend'[p] = backend[p] /\ Settled(p)')]_vars

\* C35 (amended): eventual completion for a file that was only ever
\* appended to.  Once it has stopped changing, repeated passes reach one
\* that saves a row with the offset at the end of the file, every mappable
\* entry of a hash unique in the file then accepted exactly once; from then
\* on the file stays settled and no pass emits anything for it while it does
\* not change.
C35_EventualCompletion ==
    /\ \A p \in {"A"} : <>[](appendOnly[p] => Settled(p))
    /\ [][\A p \in Paths :
            (appendOnly[p] /\ Settled(p) /\ files'[p] = files[p]) =>
                (backend'[p] = backend[p] /\ Settled(p)')]_vars

\* After the last write, a pass over the appended file of two entries has
\* settled it.
C35_Witness ==
    /\ appendOnly["A"] /\ clock = MaxWrites
    /\ files["A"] = <<UserA, AssistB>>
    /\ Settled("A")
    /\ runs = MaxRuns
    /\ pass["A"].done /\ pass["A"].err = "none" /\ pass["A"].opened
    /\ Len(backend["A"]) = 2

\* The liveness part of C35 as stated, alone.
C35_AsStatedLive == <>[]Settled("A")

====
